---- MODULE Spec2Model ----
(***************************************************************************)
(* Output-normalization engine of MultiAgentWeb (src/ui/ppt_builder.py).   *)
(*                                                                         *)
(* Text is a sequence of one-character strings, so that lengths, trimming, *)
(* splitting and scanning are computed character by character as the code  *)
(* computes them.  Characters that cannot be written in a TLA+ string are  *)
(* named: "EMDASH" (U+2014), "ENDASH" (U+2013), "BULLET" (U+2022),         *)
(* "OSLASH" (U+00F8), "BACKTICK" (U+0060).                                  *)
(*                                                                         *)
(* JSON / Python literals are modelled on the subset the inputs use:       *)
(* objects, arrays, strings without escape sequences, non-negative         *)
(* integers and the three keywords.                                        *)
(***************************************************************************)
EXTENDS Integers, Sequences, FiniteSets, TLC

(***************************************************************************)
(* Characters and trimming (str.strip / lstrip / rstrip / lower)           *)
(***************************************************************************)
WS == {" ", "\t", "\n", "\r"}

Digits == <<"0","1","2","3","4","5","6","7","8","9">>

DigitSet == {Digits[i] : i \in 1..Len(Digits)}

UpperCase == <<"A","B","C","D","E","F","G","H","I","J","K","L","M","N","O","P","Q","R","S","T","U",
               "V","W","X","Y","Z","OSLASH_UP">>

LowerCase == <<"a","b","c","d","e","f","g","h","i","j","k","l","m","n","o","p","q","r","s","t","u",
               "v","w","x","y","z","OSLASH">>

MinOf(S) == CHOOSE x \in S : \A y \in S : x <= y

\* str.lower() on one character
LowerChar(c) ==
    IF \E i \in 1..Len(UpperCase) : UpperCase[i] = c
    THEN LowerCase[CHOOSE i \in 1..Len(UpperCase) : UpperCase[i] = c]
    ELSE c

\* str.lower()
Lower(s) == [i \in 1..Len(s) |-> LowerChar(s[i])]

\* s.lstrip(chars): drop the leading characters that belong to chars
LStripSet(s, chars) ==
    LET J == {j \in 1..Len(s)+1 : j = Len(s)+1 \/ s[j] \notin chars}
    IN  SubSeq(s, MinOf(J), Len(s))

\* s.rstrip(chars): drop the trailing characters that belong to chars
RStripSet(s, chars) ==
    LET T == {j \in 1..Len(s)+1 : \A k \in j..Len(s) : s[k] \in chars}
    IN  SubSeq(s, 1, MinOf(T) - 1)

\* s.strip(chars)
StripSet(s, chars) == RStripSet(LStripSet(s, chars), chars)

\* s.strip()
Strip(s) == StripSet(s, WS)

\* s[i:].startswith(p), 1-based i
MatchAt(s, i, p) ==
    /\ i >= 1
    /\ i + Len(p) - 1 <= Len(s)
    /\ \A k \in 1..Len(p) : s[i + k - 1] = p[k]

\* case-insensitive MatchAt (re.I)
MatchAtCI(s, i, p) ==
    /\ i >= 1
    /\ i + Len(p) - 1 <= Len(s)
    /\ \A k \in 1..Len(p) : LowerChar(s[i + k - 1]) = LowerChar(p[k])

StartsWith(s, p) == MatchAt(s, 1, p)

EndsWith(s, p) == Len(p) <= Len(s) /\ MatchAt(s, Len(s) - Len(p) + 1, p)

\* p in s
Contains(s, p) == \E i \in 1..Len(s)+1 : MatchAt(s, i, p)

\* first index >= i that is past the end or holds no whitespace (regex \s*)
SkipWs(s, i) == MinOf({j \in i..Len(s)+1 : j = Len(s)+1 \/ s[j] \notin WS})

RECURSIVE Concat(_)
\* "".join(parts)
Concat(parts) == IF parts = <<>> THEN <<>> ELSE Head(parts) \o Concat(Tail(parts))

RECURSIVE Join(_, _)
\* sep.join(parts)
Join(sep, parts) ==
    IF parts = <<>> THEN <<>>
    ELSE IF Len(parts) = 1 THEN parts[1]
    ELSE parts[1] \o sep \o Join(sep, Tail(parts))

RECURSIVE SplitOn(_, _)
\* s.split(c) for a one-character separator c
SplitOn(s, c) ==
    LET J == {j \in 1..Len(s) : s[j] = c}
    IN  IF J = {} THEN <<s>>
        ELSE <<SubSeq(s, 1, MinOf(J) - 1)>> \o SplitOn(SubSeq(s, MinOf(J) + 1, Len(s)), c)

\* s.splitlines(): split at line breaks, no empty last line after a final break
SplitLines(s) ==
    IF s = <<>> THEN <<>>
    ELSE IF s[Len(s)] = "\n" THEN SplitOn(SubSeq(s, 1, Len(s) - 1), "\n")
    ELSE SplitOn(s, "\n")

(***************************************************************************)
(* Parsed values (what json.loads / ast.literal_eval return).              *)
(* Every value is a record of one shape: t is the Python type, s the text  *)
(* of a string / the digits of an int / "True" or "False", items the       *)
(* elements of a list or the entries of a dict (an entry has t = "kv", its *)
(* key in s and its value as the single element of items).                 *)
(***************************************************************************)
JNull == [t |-> "null", s |-> <<>>, items |-> <<>>]

JStr(txt) == [t |-> "str", s |-> txt, items |-> <<>>]

JNum(digits) == [t |-> "num", s |-> digits, items |-> <<>>]

JBool(b) == [t |-> "bool", s |-> IF b THEN <<"T","r","u","e">> ELSE <<"F","a","l","s","e">>, items |-> <<>>]

JArr(elems) == [t |-> "arr", s |-> <<>>, items |-> elems]

JObj(entries) == [t |-> "obj", s |-> <<>>, items |-> entries]

KV(k, v) == [t |-> "kv", s |-> k, items |-> <<v>>]

IsStr(v) == v.t = "str"

IsDict(v) == v.t = "obj"

IsList(v) == v.t = "arr"

RECURSIVE DigitsToInt(_)
\* int("123")
DigitsToInt(d) ==
    IF d = <<>> THEN 0
    ELSE 10 * DigitsToInt(SubSeq(d, 1, Len(d) - 1))
         + ((CHOOSE i \in 1..10 : Digits[i] = d[Len(d)]) - 1)

RECURSIVE IntToDigits(_)
\* str(n) for n >= 0
IntToDigits(n) ==
    IF n < 10 THEN <<Digits[n + 1]>> ELSE IntToDigits(n \div 10) \o <<Digits[(n % 10) + 1]>>

\* Python truthiness: bool(v)
Truthy(v) ==
    CASE v.t = "null" -> FALSE
      [] v.t = "bool" -> v.s = <<"T","r","u","e">>
      [] v.t = "num"  -> DigitsToInt(v.s) # 0
      [] v.t = "str"  -> v.s # <<>>
      [] OTHER        -> v.items # <<>>

\* a or b
Or(a, b) == IF Truthy(a) THEN a ELSE b

\* d.get(k): the value stored under key k, None when absent
Get(d, k) ==
    IF \E i \in 1..Len(d.items) : d.items[i].s = k
    THEN d.items[CHOOSE i \in 1..Len(d.items) : d.items[i].s = k].items[1]
    ELSE JNull

\* k in d
HasKey(d, k) == \E i \in 1..Len(d.items) : d.items[i].s = k

\* d[k] = v while building a dict: a repeated key keeps its place and takes the last value
PutEntry(entries, k, v) ==
    IF \E i \in 1..Len(entries) : entries[i].s = k
    THEN [i \in 1..Len(entries) |-> IF entries[i].s = k THEN KV(k, v) ELSE entries[i]]
    ELSE Append(entries, KV(k, v))

\* repr() of a str: single quotes unless the text holds ' and no "
ReprStr(txt) ==
    IF (\E i \in 1..Len(txt) : txt[i] = "'") /\ ~(\E i \in 1..Len(txt) : txt[i] = "\"")
    THEN <<"\"">> \o txt \o <<"\"">>
    ELSE <<"'">> \o txt \o <<"'">>

RECURSIVE Repr(_), ReprItems(_)
\* repr(v)
Repr(v) ==
    CASE v.t = "null" -> <<"N","o","n","e">>
      [] v.t = "bool" -> v.s
      [] v.t = "num"  -> v.s
      [] v.t = "str"  -> ReprStr(v.s)
      [] v.t = "arr"  -> <<"[">> \o Join(<<",", " ">>, ReprItems(v.items)) \o <<"]">>
      [] v.t = "obj"  -> <<"{">> \o Join(<<",", " ">>, ReprItems(v.items)) \o <<"}">>
      [] OTHER        -> ReprStr(v.s) \o <<":", " ">> \o Repr(v.items[1])

ReprItems(items) == [i \in 1..Len(items) |-> Repr(items[i])]

\* str(v)
Str(v) == IF v.t = "str" THEN v.s ELSE Repr(v)

\* _strip(x)
StripVal(v) == IF v.t = "null" THEN <<>> ELSE Strip(Str(v))

\* _coerce_list(x)
CoerceList(v) ==
    IF v.t = "null" THEN <<>> ELSE IF IsList(v) THEN v.items ELSE <<v>>

(***************************************************************************)
(* json.loads and ast.literal_eval as one recursive-descent parser.        *)
(* py = FALSE: JSON (double-quoted strings, null/true/false, no trailing   *)
(* comma, no control character inside a string).                           *)
(* py = TRUE: Python literal (either quote, None/True/False, trailing      *)
(* comma allowed, int or str keys).                                        *)
(* A parse returns [ok, v, pos]: pos is the index after the value.         *)
(***************************************************************************)
ParseFail == [ok |-> FALSE, v |-> JNull, pos |-> 0]

ParseOk(v, pos) == [ok |-> TRUE, v |-> v, pos |-> pos]

\* a quoted string starting at the quote s[i]
ParseString(s, i, py) ==
    LET q == s[i]
        E == {e \in (i+1)..Len(s) : s[e] = q}
    IN  IF E = {} THEN ParseFail
        ELSE LET e   == MinOf(E)
                 txt == SubSeq(s, i + 1, e - 1)
             IN  IF \E k \in 1..Len(txt) : txt[k] = "\\" \/ (txt[k] \in {"\n", "\r"}) \/ (~py /\ txt[k] = "\t")
                 THEN ParseFail
                 ELSE ParseOk(JStr(txt), e + 1)

\* a run of digits starting at s[i]; a leading zero is allowed only for "0"
ParseNumber(s, i) ==
    LET e == MinOf({j \in i..Len(s)+1 : j = Len(s)+1 \/ s[j] \notin DigitSet})
        d == SubSeq(s, i, e - 1)
    IN  IF Len(d) > 1 /\ d[1] = "0" THEN ParseFail
        ELSE IF e <= Len(s) /\ s[e] \in {".", "e", "E"} THEN ParseFail
        ELSE ParseOk(JNum(d), e)

ParseKeyword(s, i, py) ==
    LET kwNull  == IF py THEN <<"N","o","n","e">> ELSE <<"n","u","l","l">>
        kwTrue  == IF py THEN <<"T","r","u","e">> ELSE <<"t","r","u","e">>
        kwFalse == IF py THEN <<"F","a","l","s","e">> ELSE <<"f","a","l","s","e">>
    IN  IF MatchAt(s, i, kwNull) THEN ParseOk(JNull, i + 4)
        ELSE IF MatchAt(s, i, kwTrue) THEN ParseOk(JBool(TRUE), i + 4)
        ELSE IF MatchAt(s, i, kwFalse) THEN ParseOk(JBool(FALSE), i + 5)
        ELSE ParseFail

IsQuote(c, py) == c = "\"" \/ (py /\ c = "'")

RECURSIVE ParseValueAt(_, _, _), ParseElems(_, _, _, _), ParseMembers(_, _, _, _)
\* the value that starts at s[j], j the index of its first character
ParseValueAt(s, j, py) ==
    IF j > Len(s) THEN ParseFail
    ELSE IF s[j] = "{" THEN ParseMembers(s, SkipWs(s, j + 1), py, <<>>)
    ELSE IF s[j] = "[" THEN ParseElems(s, SkipWs(s, j + 1), py, <<>>)
    ELSE IF IsQuote(s[j], py) THEN ParseString(s, j, py)
    ELSE IF s[j] \in DigitSet THEN ParseNumber(s, j)
    ELSE ParseKeyword(s, j, py)

\* the value that starts at or after s[i], whitespace skipped
ParseValue(s, i, py) == ParseValueAt(s, SkipWs(s, i), py)

\* after an element r at index k (whitespace skipped): a comma or the closing bracket
ElemNext(s, k, py, acc) ==
    IF k > Len(s) THEN ParseFail
    ELSE IF s[k] = "," THEN ParseElems(s, SkipWs(s, k + 1), py, acc)
    ELSE IF s[k] = "]" THEN ParseOk(JArr(acc), k + 1)
    ELSE ParseFail

ElemParsed(s, r, py, acc) ==
    IF ~r.ok THEN ParseFail ELSE ElemNext(s, SkipWs(s, r.pos), py, Append(acc, r.v))

\* the elements of a list from index j on, after "[" or after a comma
ParseElems(s, j, py, acc) ==
    IF j > Len(s) THEN ParseFail
    ELSE IF s[j] = "]" /\ (acc = <<>> \/ py) THEN ParseOk(JArr(acc), j + 1)
    ELSE ElemParsed(s, ParseValueAt(s, j, py), py, acc)

\* after an entry at index k (whitespace skipped): a comma or the closing brace
MemberNext(s, k, py, acc) ==
    IF k > Len(s) THEN ParseFail
    ELSE IF s[k] = "," THEN ParseMembers(s, SkipWs(s, k + 1), py, acc)
    ELSE IF s[k] = "}" THEN ParseOk(JObj(acc), k + 1)
    ELSE ParseFail

MemberParsed(s, key, r, py, acc) ==
    IF ~r.ok THEN ParseFail ELSE MemberNext(s, SkipWs(s, r.pos), py, PutEntry(acc, key, r.v))

\* after the key: the colon at index c, then the value
MemberColon(s, key, c, py, acc) ==
    IF c > Len(s) \/ s[c] # ":" THEN ParseFail
    ELSE MemberParsed(s, key, ParseValue(s, c + 1, py), py, acc)

MemberKey(s, key, py, acc) ==
    IF ~key.ok THEN ParseFail ELSE MemberColon(s, key.v.s, SkipWs(s, key.pos), py, acc)

\* the entries of a dict from index j on, after "{" or after a comma
ParseMembers(s, j, py, acc) ==
    IF j > Len(s) THEN ParseFail
    ELSE IF s[j] = "}" /\ (acc = <<>> \/ py) THEN ParseOk(JObj(acc), j + 1)
    ELSE IF IsQuote(s[j], py) THEN MemberKey(s, ParseString(s, j, py), py, acc)
    ELSE IF py /\ s[j] \in DigitSet THEN MemberKey(s, ParseNumber(s, j), py, acc)
    ELSE ParseFail

\* a parse result counts only when nothing but whitespace follows the value
WholeOnly(s, r) == IF r.ok /\ SkipWs(s, r.pos) > Len(s) THEN r ELSE ParseFail

\* a whole text parsed as one value
ParseWhole(s, py) == WholeOnly(s, ParseValue(s, 1, py))

\* _safe_json_loads(s)[0]: the parsed value, None on any error
SafeJsonLoads(s) == ParseWhole(s, FALSE).v

\* the last three lines of _looks_like_json_dict, on the trimmed text t
LiteralIsDict(t, r) == StartsWith(t, <<"{">>) /\ EndsWith(t, <<"}">>) /\ r.ok /\ IsDict(r.v)

\* _looks_like_json_dict(s)
LooksLikeJsonDict(s) == LiteralIsDict(Strip(s), ParseWhole(Strip(s), TRUE))

(***************************************************************************)
(* Scanners: the three regular expressions of the module header, the       *)
(* brace-depth scan and the split helpers.                                 *)
(***************************************************************************)
Backticks == <<"BACKTICK", "BACKTICK", "BACKTICK">>

Dashes == {"ENDASH", "-"}

\* where the run after "http://" or "https://" starts when the scheme sits at index i, else 0
UrlBodyStart(s, i) ==
    IF ~MatchAt(s, i, <<"h","t","t","p">>) THEN 0
    ELSE IF MatchAt(s, i + 4, <<"s",":","/","/">>) THEN i + 8
    ELSE IF MatchAt(s, i + 4, <<":","/","/">>) THEN i + 7
    ELSE 0

\* does URL_PATTERN match at index i: the scheme, then at least one character that is
\* neither whitespace nor ")"
UrlAt(s, i) ==
    /\ UrlBodyStart(s, i) # 0
    /\ UrlBodyStart(s, i) <= Len(s)
    /\ s[UrlBodyStart(s, i)] \notin WS \cup {")"}

RECURSIVE FindUrlsFrom(_, _)
\* URL_PATTERN.findall(s) from index i on: each match runs to the next whitespace or ")"
FindUrlsFrom(s, i) ==
    LET P == {p \in i..Len(s) : UrlAt(s, p)}
    IN  IF P = {} THEN <<>>
        ELSE LET p == MinOf(P)
                 e == MinOf({j \in UrlBodyStart(s, p)..Len(s)+1 : j = Len(s)+1 \/ s[j] \in WS \cup {")"}})
             IN  <<SubSeq(s, p, e - 1)>> \o FindUrlsFrom(s, e)

\* _find_urls(s)
FindUrls(s) == FindUrlsFrom(s, 1)

\* where the interior of a fence opened at index i starts: after the backticks, the optional
\* json annotation and whitespace
FenceBodyStart(s, i) ==
    SkipWs(s, IF MatchAtCI(s, i + 3, <<"j","s","o","n">>) THEN i + 7 ELSE i + 3)

\* does FENCE match at index i: an opening marker with a closing marker after its interior
FenceAt(s, i) ==
    /\ MatchAt(s, i, Backticks)
    /\ \E e \in FenceBodyStart(s, i)..Len(s) : MatchAt(s, e, Backticks)

RECURSIVE FenceFindAllFrom(_, _)
\* FENCE.findall(s) from index i on: the interior of each fenced block, without the
\* optional json annotation and without surrounding whitespace
FenceFindAllFrom(s, i) ==
    LET P == {p \in i..Len(s) : FenceAt(s, p)}
    IN  IF P = {} THEN <<>>
        ELSE LET g == FenceBodyStart(s, MinOf(P))
                 e == MinOf({e \in g..Len(s) : MatchAt(s, e, Backticks)})
             IN  <<RStripSet(SubSeq(s, g, e - 1), WS)>> \o FenceFindAllFrom(s, e + 3)

FenceFindAll(s) == FenceFindAllFrom(s, 1)

\* a bullet pattern that knows the dash only
DropDash(s) ==
    LET j == SkipWs(s, 1)
    IN  IF j < Len(s) /\ s[j] = "-" /\ s[j + 1] \in WS
        THEN Strip(SubSeq(s, j + 1, Len(s)))
        ELSE Strip(s)

\* _drop_bullet(s): remove one leading "-", "*" or bullet that is followed by whitespace
DropBullet(s) ==
    LET j == SkipWs(s, 1)
    IN  IF j < Len(s) /\ s[j] \in {"-", "*", "BULLET"} /\ s[j + 1] \in WS
        THEN Strip(SubSeq(s, j + 1, Len(s)))
        ELSE Strip(s)

\* objs.append(json.loads(block)), skipped when the block does not parse
AppendParsed(objs, r) == IF r.ok THEN Append(objs, r.v) ELSE objs

RECURSIVE BraceScan(_, _, _, _, _)
\* the loop of _brace_scan_json at brace j (characters other than braces change nothing,
\* so the loop is followed from brace to brace); start = 0 stands for None
BraceScanAt(text, j, depth, start, objs) ==
    IF text[j] = "{"
    THEN BraceScan(text, j + 1, depth + 1, IF depth = 0 THEN j ELSE start, objs)
    ELSE IF depth - 1 = 0 /\ start # 0
         THEN BraceScan(text, j + 1, 0, 0, AppendParsed(objs, ParseWhole(SubSeq(text, start, j), FALSE)))
         ELSE BraceScan(text, j + 1, depth - 1, start, objs)

BraceScan(text, i, depth, start, objs) ==
    IF \A j \in i..Len(text) : text[j] \notin {"{", "}"} THEN objs
    ELSE BraceScanAt(text, MinOf({j \in i..Len(text) : text[j] \in {"{", "}"}}), depth, start, objs)

\* a scan that returns after the first object it closes
BraceScanFirst(text) ==
    SubSeq(BraceScan(text, 1, 0, 0, <<>>), 1, IF BraceScan(text, 1, 0, 0, <<>>) = <<>> THEN 0 ELSE 1)

\* _brace_scan_json(text)
BraceScanJson(text) == BraceScan(text, 1, 0, 0, <<>>)

RECURSIVE SplitAtAny(_, _, _)
\* re.split(r"\s*[seps]\s*", s, maxsplit): cut at the first maxsplit separator characters
SplitAtAny(s, seps, maxsplit) ==
    LET J == {j \in 1..Len(s) : s[j] \in seps}
    IN  IF maxsplit = 0 \/ J = {} THEN <<s>>
        ELSE <<RStripSet(SubSeq(s, 1, MinOf(J) - 1), WS)>>
             \o SplitAtAny(LStripSet(SubSeq(s, MinOf(J) + 1, Len(s)), WS), seps, maxsplit - 1)

\* parts += ["", "", ""]; return the first three, trimmed
FirstThree(parts) ==
    <<Strip(parts[1]),
      IF Len(parts) > 1 THEN Strip(parts[2]) ELSE <<>>,
      IF Len(parts) > 2 THEN Strip(parts[3]) ELSE <<>>>>

\* _split3(s)
Split3(s) == FirstThree(SplitAtAny(s, {"-", "ENDASH", ":", ";"}, 2))

\* the first index k >= from such that what follows it[k] is empty or is optional whitespace,
\* a dash and at least one more character: the end of the lazy group (.+?)
LazyEnd(it, from) ==
    MinOf({k \in from..Len(it) :
              \/ k = Len(it)
              \/ SkipWs(it, k + 1) < Len(it) /\ it[SkipWs(it, k + 1)] \in Dashes})

\* the else branch of _split_recommendation: no priority (-1 stands for None), the item
\* cut at its first dash
NoPriority(segs) ==
    [prio |-> -1, act |-> Strip(segs[1]), why |-> IF Len(segs) > 1 THEN Strip(segs[2]) ELSE <<>>]

\* groups 2 and 3 of the pattern: the action runs from index from to k, the rationale
\* follows the dash
WithPriority(it, digits, from, k) ==
    [prio |-> DigitsToInt(digits),
     act  |-> Strip(SubSeq(it, from, k)),
     why  |-> IF k = Len(it) THEN <<>> ELSE Strip(SubSeq(it, SkipWs(it, k + 1) + 1, Len(it)))]

\* the pattern after "prioritet" and whitespace: digits from c to d - 1, optional
\* whitespace, an optional "]" at w1, optional whitespace up to w2, then the action.  When
\* nothing is left for the action the pattern backtracks: the "]" or else the last digit
\* becomes the action
PriorityTail(it, c, d, w1, w2) ==
    IF d = c THEN NoPriority(SplitAtAny(it, Dashes, 1))
    ELSE IF w2 <= Len(it) THEN WithPriority(it, SubSeq(it, c, d - 1), w2, LazyEnd(it, w2))
    ELSE IF w1 <= Len(it) THEN WithPriority(it, SubSeq(it, c, d - 1), w1, LazyEnd(it, w1))
    ELSE IF d - c >= 2 THEN WithPriority(it, SubSeq(it, c, d - 2), d - 1, LazyEnd(it, d - 1))
    ELSE NoPriority(SplitAtAny(it, Dashes, 1))

\* w1: the index after the digits and whitespace
PriorityClose(it, c, d, w1) ==
    PriorityTail(it, c, d, w1, SkipWs(it, IF w1 <= Len(it) /\ it[w1] = "]" THEN w1 + 1 ELSE w1))

\* c: the index of the first digit
PriorityDigits(it, c, d) == PriorityClose(it, c, d, SkipWs(it, d))

\* b: the index where "prioritet" must stand
PriorityWord(it, b) ==
    IF ~MatchAtCI(it, b, <<"p","r","i","o","r","i","t","e","t">>)
    THEN NoPriority(SplitAtAny(it, Dashes, 1))
    ELSE PriorityDigits(it, SkipWs(it, b + 9),
                        MinOf({j \in SkipWs(it, b + 9)..Len(it)+1 : j = Len(it)+1 \/ it[j] \notin DigitSet}))

\* one item of _split_recommendation: [prio, act, why]
SplitRecommendationItem(it) ==
    PriorityWord(it, SkipWs(it, IF Len(it) >= 1 /\ it[1] = "[" THEN 2 ELSE 1))

\* _split_recommendation(items), as one sequence of [prio, act, why]
SplitRecommendation(items) == [i \in 1..Len(items) |-> SplitRecommendationItem(items[i])]

(***************************************************************************)
(* The dictionary keys the normalizer reads, as text                       *)
(***************************************************************************)
K ==
    [summary |-> <<"s","u","m","m","a","r","y">>,
     trends |-> <<"t","r","e","n","d","s">>,
     insights |-> <<"i","n","s","i","g","h","t","s">>,
     opportunities |-> <<"o","p","p","o","r","t","u","n","i","t","i","e","s">>,
     risks |-> <<"r","i","s","k","s">>,
     competitors |-> <<"c","o","m","p","e","t","i","t","o","r","s">>,
     numbers |-> <<"n","u","m","b","e","r","s">>,
     recommendations |-> <<"r","e","c","o","m","m","e","n","d","a","t","i","o","n","s">>,
     sources |-> <<"s","o","u","r","c","e","s">>,
     research |-> <<"r","e","s","e","a","r","c","h">>,
     key_points |-> <<"k","e","y","_","p","o","i","n","t","s">>,
     keypoints |-> <<"k","e","y","p","o","i","n","t","s">>,
     highlights |-> <<"h","i","g","h","l","i","g","h","t","s">>,
     title |-> <<"t","i","t","l","e">>,
     name |-> <<"n","a","m","e">>,
     why_it_matters |-> <<"w","h","y","_","i","t","_","m","a","t","t","e","r","s">>,
     detail |-> <<"d","e","t","a","i","l">>,
     evidence |-> <<"e","v","i","d","e","n","c","e">>,
     metric |-> <<"m","e","t","r","i","c">>,
     value |-> <<"v","a","l","u","e">>,
     val |-> <<"v","a","l">>,
     source |-> <<"s","o","u","r","c","e">>,
     url |-> <<"u","r","l">>,
     position |-> <<"p","o","s","i","t","i","o","n">>,
     role |-> <<"r","o","l","e">>,
     notes |-> <<"n","o","t","e","s">>,
     priority |-> <<"p","r","i","o","r","i","t","y">>,
     action |-> <<"a","c","t","i","o","n">>,
     what |-> <<"w","h","a","t">>,
     rationale |-> <<"r","a","t","i","o","n","a","l","e">>,
     why |-> <<"w","h","y">>,
     metrics |-> <<"m","e","t","r","i","c","s">>,
     actors |-> <<"a","c","t","o","r","s">>,
     raw |-> <<"r","a","w">>,
     content |-> <<"c","o","n","t","e","n","t">>,
     text |-> <<"t","e","x","t">>,
     final_output |-> <<"f","i","n","a","l","_","o","u","t","p","u","t">>,
     result |-> <<"r","e","s","u","l","t">>,
     output |-> <<"o","u","t","p","u","t">>,
     message |-> <<"m","e","s","s","a","g","e">>,
     artifacts |-> <<"a","r","t","i","f","a","c","t","s">>,
     tasks_output |-> <<"t","a","s","k","s","_","o","u","t","p","u","t">>,
     tasks |-> <<"t","a","s","k","s">>]

(***************************************************************************)
(* The accumulator ("merged"): a record with one field per section key.    *)
(* A field is a tagged value like the parsed ones: summary is a str, the   *)
(* other eight are lists; the items of a simple list are texts, the items  *)
(* of competitors / numbers / recommendations are rows.                    *)
(***************************************************************************)
SECTION_KEYS ==
    <<"summary", "trends", "insights", "opportunities", "risks", "competitors", "numbers",
      "recommendations", "sources">>

SectionKeySet == {SECTION_KEYS[i] : i \in 1..Len(SECTION_KEYS)}

SimpleListKeys == <<"trends", "insights", "opportunities", "risks", "sources">>

ListKeySet == SectionKeySet \ {"summary"}

\* merged = {k: ([] if k != "summary" else "") for k in SECTION_KEYS}
EmptyAccumulator == [k \in SectionKeySet |-> IF k = "summary" THEN JStr(<<>>) ELSE JArr(<<>>)]

\* merged[key] = items: assignment where the code extends
Overwrite(merged, key, items) ==
    IF items = <<>> THEN merged ELSE [merged EXCEPT ![key].items = items]

\* merged[key].extend(items)
Extend(merged, key, items) == [merged EXCEPT ![key].items = @ \o items]

SeqMap(F(_), seq) == [i \in 1..Len(seq) |-> F(seq[i])]

\* the comparison of the summary rule turned round
KeepShorter(merged, txt) ==
    [merged EXCEPT !["summary"] = IF Len(txt) < Len(@.s) THEN JStr(txt) ELSE @]

\* if len(s) > len(merged["summary"]): merged["summary"] = s
KeepLonger(merged, txt) ==
    [merged EXCEPT !["summary"] = IF Len(txt) > Len(@.s) THEN JStr(txt) ELSE @]

\* the display line of a trend object; empty when every component is empty
TrendLine(t) ==
    LET title == StripVal(Or(Get(t, K.title), Get(t, K.name)))
        why   == StripVal(Or(Or(Get(t, K.why_it_matters), Get(t, K.detail)), Get(t, K.summary)))
        ev    == StripVal(Get(t, K.evidence))
        line  == StripSet(title \o <<" ", "EMDASH", " ">> \o why, {" ", "EMDASH"})
    IN  IF ev # <<>>
        THEN line \o <<" ","(","e","v","i","d","e","n","c","e",":"," ">> \o ev \o <<")">>
        ELSE line

\* the trend lines a list of trend elements adds; strings only when withStrings
TrendLines(tr, withStrings) ==
    LET Keep(t) == \/ IsDict(t) /\ TrendLine(t) # <<>>
                   \/ withStrings /\ IsStr(t) /\ ~LooksLikeJsonDict(t.s)
        Line(t) == IF IsDict(t) THEN TrendLine(t) ELSE StripVal(t)
    IN  SeqMap(Line, SelectSeq(tr, Keep))

\* [_strip(item) for item in _coerce_list(v) if _strip(item)]
StrippedItems(v) ==
    LET NonEmpty(item) == StripVal(item) # <<>>
    IN  SeqMap(StripVal, SelectSeq(CoerceList(v), NonEmpty))

CompetitorRow(name, position, notes) == [name |-> name, position |-> position, notes |-> notes]

NumberRow(metric, value, source) == [metric |-> metric, value |-> value, source |-> source]

RecommendationRow(priority, action, rationale) ==
    [priority |-> priority, action |-> action, rationale |-> rationale]

\* _merge_research_block(merged, research)
MergeResearchBlock(merged, research) ==
    LET tr    == Get(research, K.trends)
        nums  == Or(Get(research, K.numbers), Get(research, K.metrics))
        comps == Or(Get(research, K.competitors), Get(research, K.actors))
        recs  == Get(research, K.recommendations)
        Num(n)  == NumberRow(StripVal(Or(Get(n, K.metric), Get(n, K.name))),
                             StripVal(Or(Get(n, K.value), Get(n, K.val))),
                             StripVal(Or(Get(n, K.source), Get(n, K.url))))
        Comp(c) == CompetitorRow(StripVal(Get(c, K.name)),
                                 StripVal(Or(Or(Get(c, K.position), Get(c, K.role)), JStr(<<>>))),
                                 StripVal(Or(Or(Get(c, K.notes), Get(c, K.summary)), JStr(<<>>))))
        Rec(r)  == RecommendationRow(Get(r, K.priority),
                                     StripVal(Or(Get(r, K.action), Get(r, K.what))),
                                     StripVal(Or(Get(r, K.rationale), Get(r, K.why))))
        m1 == Extend(merged, "trends", IF IsList(tr) THEN TrendLines(tr.items, FALSE) ELSE <<>>)
        m2 == Extend(m1, "numbers", IF IsList(nums) THEN SeqMap(Num, SelectSeq(nums.items, IsDict)) ELSE <<>>)
        m3 == Extend(m2, "competitors", IF IsList(comps) THEN SeqMap(Comp, SelectSeq(comps.items, IsDict)) ELSE <<>>)
        m4 == Extend(m3, "insights", StrippedItems(Get(research, K.insights)))
        m5 == Extend(m4, "opportunities", StrippedItems(Get(research, K.opportunities)))
        m6 == Extend(m5, "risks", StrippedItems(Get(research, K.risks)))
        m7 == Extend(m6, "sources", StrippedItems(Get(research, K.sources)))
    IN  Extend(m7, "recommendations", IF IsList(recs) THEN SeqMap(Rec, SelectSeq(recs.items, IsDict)) ELSE <<>>)

\* the summary stored as found, without _strip and without the length test
MergeSummaryRaw(merged, obj) == [merged EXCEPT !["summary"] = Get(obj, K.summary)]

\* the summary of the last object merged wins
MergeSummaryLast(merged, obj) ==
    IF HasKey(obj, K.summary)
    THEN [merged EXCEPT !["summary"] = JStr(StripVal(Get(obj, K.summary)))]
    ELSE merged

\* the summary step of _merge_json_into (lines 411-415)
MergeSummary(merged, obj) ==
    IF HasKey(obj, K.summary) THEN KeepLonger(merged, StripVal(Get(obj, K.summary))) ELSE merged

\* the trends step of _merge_json_into (lines 417-434)
MergeTrends(merged, obj) ==
    LET tr == Get(obj, K.trends)
        l  == IF IsDict(tr) THEN <<tr>> ELSE IF IsList(tr) THEN tr.items ELSE <<>>
    IN  Extend(merged, "trends", TrendLines(l, TRUE))

\* the key_points / keypoints / highlights step (lines 443-449): each item goes to
\* insights and to trends
MergeKeyPoints(merged, obj) ==
    LET pts == StrippedItems(Get(obj, K.key_points)) \o StrippedItems(Get(obj, K.keypoints))
               \o StrippedItems(Get(obj, K.highlights))
    IN  Extend(Extend(merged, "insights", pts), "trends", pts)

\* the competitors / numbers / recommendations steps (lines 451-482)
MergeRows(merged, obj) ==
    LET Comp(c) == CompetitorRow(StripVal(Get(c, K.name)), StripVal(Get(c, K.position)),
                                 StripVal(Get(c, K.notes)))
        Num(n)  == NumberRow(StripVal(Get(n, K.metric)), StripVal(Get(n, K.value)),
                             StripVal(Get(n, K.source)))
        Rec(r)  == RecommendationRow(Get(r, K.priority), StripVal(Get(r, K.action)),
                                     StripVal(Get(r, K.rationale)))
        m1 == Extend(merged, "competitors", SeqMap(Comp, SelectSeq(CoerceList(Get(obj, K.competitors)), IsDict)))
        m2 == Extend(m1, "numbers", SeqMap(Num, SelectSeq(CoerceList(Get(obj, K.numbers)), IsDict)))
    IN  Extend(m2, "recommendations", SeqMap(Rec, SelectSeq(CoerceList(Get(obj, K.recommendations)), IsDict)))

\* the body of _merge_json_into for a dict obj, after the research block
MergeFields(m1, obj) ==
    LET m2 == MergeSummary(m1, obj)
        m3 == MergeTrends(m2, obj)
        m4 == Extend(m3, "insights", StrippedItems(Get(obj, K.insights)))
        m5 == Extend(m4, "opportunities", StrippedItems(Get(obj, K.opportunities)))
        m6 == Extend(m5, "risks", StrippedItems(Get(obj, K.risks)))
        m7 == Extend(m6, "sources", StrippedItems(Get(obj, K.sources)))
    IN  MergeRows(MergeKeyPoints(m7, obj), obj)

\* _merge_json_into(merged, obj)
MergeJsonInto(merged, obj) ==
    IF ~IsDict(obj) THEN merged
    ELSE IF IsDict(Get(obj, K.research))
    THEN MergeFields(MergeResearchBlock(merged, Get(obj, K.research)), obj)
    ELSE MergeFields(merged, obj)

RECURSIVE MergeAll(_, _)
\* for obj in objs: _merge_json_into(merged, obj)
MergeAll(merged, objs) ==
    IF objs = <<>> THEN merged ELSE MergeAll(MergeJsonInto(merged, Head(objs)), Tail(objs))

(***************************************************************************)
(* "summary=..., key_points=[...]" blocks (_parse_summary_kv_block)        *)
(***************************************************************************)
\* re.search(name\s*=\s*OPEN(.+?)CLOSE, text, re.S | re.I): the group of the leftmost match,
\* [found, body]; the lazy group holds at least one character and ends at the next CLOSE
FindDelimited(text, name, open, close) ==
    LET After(p) == SkipWs(text, p + Len(name))
        Open(p)  == SkipWs(text, After(p) + 1)
        Hit(p)   == /\ MatchAtCI(text, p, name)
                    /\ After(p) <= Len(text) /\ text[After(p)] = "="
                    /\ Open(p) <= Len(text) /\ text[Open(p)] = open
                    /\ \E e \in (Open(p) + 2)..Len(text) : text[e] = close
        P == {p \in 1..Len(text) : Hit(p)}
    IN  IF P = {} THEN [found |-> FALSE, body |-> <<>>]
        ELSE LET b == Open(MinOf(P))
                 e == MinOf({e \in (b + 2)..Len(text) : text[e] = close})
             IN  [found |-> TRUE, body |-> SubSeq(text, b + 1, e - 1)]

\* the group of a match, trimmed; otherwise the alternative
GroupOr(m, other) == IF m.found THEN Strip(m.body) ELSE other

\* _find_value(name): the quoted value, double quotes tried first; empty for None
FindValue(text, name) ==
    GroupOr(FindDelimited(text, name, "\"", "\""), GroupOr(FindDelimited(text, name, "'", "'"), <<>>))

\* one comma-separated part of a list body: trimmed, one pair of quotes removed
Unquote(part) ==
    LET p == Strip(part)
    IN  IF \/ StartsWith(p, <<"\"">>) /\ EndsWith(p, <<"\"">>)
           \/ StartsWith(p, <<"'">>) /\ EndsWith(p, <<"'">>)
        THEN Strip(SubSeq(p, 2, Len(p) - 1))
        ELSE p

\* the items of a matched list body
ListItems(m) ==
    IF ~m.found THEN <<>>
    ELSE SelectSeq(SeqMap(Unquote, SplitOn(m.body, ",")), LAMBDA p : p # <<>>)

\* _find_list(name)
FindList(text, name) == ListItems(FindDelimited(text, name, "[", "]"))

\* the text _parse_summary_kv_block works on: trimmed, one leading "- " removed
KvText(s) ==
    IF StartsWith(Strip(s), <<"-", " ">>)
    THEN LStripSet(SubSeq(Strip(s), 3, Len(Strip(s))), WS)
    ELSE Strip(s)

\* the dict parsed, given which keywords text holds; ok = FALSE stands for None
KvParsed(keyword, summary, key_points, recommendations, sources) ==
    [ok |-> keyword /\ ~(summary = <<>> /\ key_points = <<>> /\ recommendations = <<>> /\ sources = <<>>),
     summary |-> summary, key_points |-> key_points, recommendations |-> recommendations,
     sources |-> sources]

KvOfText(text) ==
    KvParsed(Contains(text, K.summary \o <<"=">>) \/ Contains(text, K.key_points)
                 \/ Contains(text, K.recommendations),
             FindValue(text, K.summary), FindList(text, K.key_points),
             FindList(text, K.recommendations), FindList(text, K.sources))

\* _parse_summary_kv_block(s)
ParseSummaryKvBlock(s) == KvOfText(KvText(s))

(***************************************************************************)
(* Heading segmenter (_extract_from_markdown)                              *)
(***************************************************************************)
SECTION_MAP_NO ==
    <<<<<<"s","a","m","m","e","n","d","r","a","g">>, "summary">>,
      <<<<"t","r","e","n","d","e","r">>, "trends">>,
      <<<<"n","OSLASH","k","k","e","l","p","u","n","k","t","e","r">>, "trends">>,
      <<<<"h","o","v","e","d","f","u","n","n">>, "insights">>,
      <<<<"i","n","n","s","i","k","t">>, "insights">>,
      <<<<"m","u","l","i","g","h","e","t","e","r">>, "opportunities">>,
      <<<<"r","i","s","i","k","o">>, "risks">>,
      <<<<"a","k","t","OSLASH","r","e","r"," ","/"," ","k","o","n","k","u","r","r","e","n","t","e","r">>, "competitors">>,
      <<<<"a","k","t","o","r","e","r"," ","/"," ","k","o","n","k","u","r","r","e","n","t","e","r">>, "competitors">>,
      <<<<"n","OSLASH","k","k","e","l","t","a","l","l">>, "numbers">>,
      <<<<"n","o","k","k","e","l","s","t","a","l","l">>, "numbers">>,
      <<<<"a","n","b","e","f","a","l","i","n","g","e","r">>, "recommendations">>,
      <<<<"k","i","l","d","e","r">>, "sources">>>>

SECTION_MAP_EN ==
    <<<<<<"e","x","e","c","u","t","i","v","e"," ","s","u","m","m","a","r","y">>, "summary">>,
      <<<<"k","e","y"," ","t","r","e","n","d","s">>, "trends">>,
      <<<<"k","e","y"," ","p","o","i","n","t","s">>, "trends">>,
      <<<<"h","i","g","h","l","i","g","h","t","s">>, "trends">>,
      <<<<"f","i","n","d","i","n","g","s">>, "insights">>,
      <<<<"m","a","r","k","e","t"," ","i","n","s","i","g","h","t","s">>, "insights">>,
      <<<<"o","p","p","o","r","t","u","n","i","t","i","e","s">>, "opportunities">>,
      <<<<"r","i","s","k","s">>, "risks">>,
      <<<<"c","o","m","p","e","t","i","t","o","r","s">>, "competitors">>,
      <<<<"c","o","m","p","e","t","i","t","o","r","s"," ","/"," ","a","c","t","o","r","s">>, "competitors">>,
      <<<<"k","e","y"," ","n","u","m","b","e","r","s">>, "numbers">>,
      <<<<"r","e","c","o","m","m","e","n","d","a","t","i","o","n","s">>, "recommendations">>,
      <<<<"s","o","u","r","c","e","s">>, "sources">>>>

\* map.get(x): the canonical key of alias x, "" for None
MapGet(map, x) ==
    IF \E i \in 1..Len(map) : map[i][1] = x
    THEN map[CHOOSE i \in 1..Len(map) : map[i][1] = x][2]
    ELSE ""

\* norm_header(h)
NormHeader(h) ==
    LET x == RStripSet(Lower(Strip(h)), {":"})
    IN  IF MapGet(SECTION_MAP_NO, x) # "" THEN MapGet(SECTION_MAP_NO, x) ELSE MapGet(SECTION_MAP_EN, x)

\* the cleaning without the mapping-literal filter
CleanedUnfiltered(buf) == SelectSeq(SeqMap(DropBullet, buf), LAMBDA l : l # <<>>)

\* filtered_cleaned(buf): bullets stripped, mapping literals and empty lines removed
FilteredCleaned(buf) ==
    LET Keep(l) == ~LooksLikeJsonDict(l) /\ l # <<>>
    IN  SelectSeq(SeqMap(DropBullet, buf), Keep)

\* the rows a recommendations flush appends: priority is p or i, i the 1-based position
RecommendationRows(parts) ==
    [i \in 1..Len(parts) |->
        RecommendationRow(JNum(IntToDigits(IF parts[i].prio > 0 THEN parts[i].prio ELSE i)),
                          parts[i].act, parts[i].why)]

\* a, b, c = _split3(x), handed to the row that is appended
RowOfParts(Row(_, _, _), p) == Row(p[1], p[2], p[3])

\* the body of flush() once the buffered lines are cleaned
FlushCleaned(merged, key, cleaned) ==
    IF key \in {"trends", "insights", "opportunities", "risks", "sources"}
    THEN Extend(merged, key, cleaned)
    ELSE IF key = "competitors"
    THEN Extend(merged, "competitors", SeqMap(LAMBDA l : RowOfParts(CompetitorRow, Split3(l)), cleaned))
    ELSE IF key = "numbers"
    THEN Extend(merged, "numbers", SeqMap(LAMBDA l : RowOfParts(NumberRow, Split3(l)), cleaned))
    ELSE IF key = "recommendations"
    THEN Extend(merged, "recommendations", RecommendationRows(SplitRecommendation(cleaned)))
    ELSE KeepLonger(merged, Strip(Join(<<" ">>, cleaned)))

\* flush(): the accumulator after the buffered lines of section current are emitted
Flush(merged, current, buf) ==
    IF current = "" \/ buf = <<>> THEN merged ELSE FlushCleaned(merged, current, FilteredCleaned(buf))

\* the canonical key a line announces, "" when the line is no recognised heading
HeadingOf(ln) ==
    IF StartsWith(ln, <<"#">>) /\ NormHeader(Strip(LStripSet(ln, {"#", " "}))) # ""
    THEN NormHeader(Strip(LStripSet(ln, {"#", " "})))
    ELSE NormHeader(RStripSet(Lower(ln), {":"}))

\* one turn of the line loop.  seg = [flushed, current, buf]: flushed lists the calls of
\* flush() made so far, each as [current, buf]; which lines go to which section does not
\* depend on the accumulator, so the calls are collected first and applied in order
SegmentLine(seg, raw) ==
    LET ln == Strip(raw)
    IN  IF ln = <<>> THEN seg
        ELSE IF HeadingOf(ln) # ""
             THEN [flushed |-> Append(seg.flushed, [current |-> seg.current, buf |-> seg.buf]),
                   current |-> HeadingOf(ln), buf |-> <<>>]
        ELSE IF seg.current # "" THEN [seg EXCEPT !.buf = Append(@, ln)]
        ELSE seg

RECURSIVE SegmentLines(_, _)
SegmentLines(seg, lines) ==
    IF lines = <<>> THEN seg ELSE SegmentLines(SegmentLine(seg, Head(lines)), Tail(lines))

\* no flush() after the last line
NoLastFlush(seg) == seg.flushed

\* the flush() after the last line
LastFlush(seg) == Append(seg.flushed, [current |-> seg.current, buf |-> seg.buf])

\* the calls of flush() that _extract_from_markdown makes on s, in order
Segments(s) ==
    LastFlush(SegmentLines([flushed |-> <<>>, current |-> "", buf |-> <<>>], SplitLines(s)))

RECURSIVE FlushAll(_, _)
FlushAll(merged, segs) ==
    IF segs = <<>> THEN merged
    ELSE FlushAll(Flush(merged, Head(segs).current, Head(segs).buf), Tail(segs))

\* _extract_from_markdown(merged, s)
ExtractFromMarkdown(merged, s) == FlushAll(merged, Segments(s))

(***************************************************************************)
(* The passes of _extract_all_json_blocks over one candidate               *)
(***************************************************************************)
\* obj, _ = _safe_json_loads(cleaned); if obj: ...
IfTruthy(obj) == IF Truthy(obj) THEN <<obj>> ELSE <<>>

\* lines 589-596: the values one fenced block hands to _merge_json_into, in order: the
\* objects of the brace scan, then the whole block when it parses to a truthy value
FenceBlockObjects(block) == BraceScanJson(Strip(block)) \o IfTruthy(SafeJsonLoads(Strip(block)))

\* the values the fenced-block pass merges for candidate s
FenceObjects(s) == Concat(SeqMap(FenceBlockObjects, FenceFindAll(s)))

\* lines 600-607: the values the bare-JSON pass merges for candidate s: a candidate that
\* looks like one JSON body is parsed whole and nothing else; any other is brace-scanned
BareObjects(s) ==
    IF \/ StartsWith(Strip(s), <<"{">>) /\ EndsWith(Strip(s), <<"}">>)
       \/ StartsWith(Strip(s), <<"[">>) /\ EndsWith(Strip(s), <<"]">>)
    THEN IfTruthy(SafeJsonLoads(Strip(s)))
    ELSE BraceScanJson(Strip(s))

\* lines 612-624: what a parsed key=value block adds
MergeKv(merged, kv) ==
    IF ~kv.ok THEN merged
    ELSE Extend(Extend(Extend(Extend(KeepLonger(merged, kv.summary),
             "insights", kv.key_points), "trends", kv.key_points),
             "recommendations", SeqMap(LAMBDA a : RecommendationRow(JNull, a, <<>>), kv.recommendations)),
             "sources", kv.sources)

\* the URLs of all candidates glued together without a separator
UrlPassGlued(merged, cands) == Extend(merged, "sources", FindUrls(Join(<<>>, cands)))

\* lines 631-632: the URLs of all candidates joined by line breaks
UrlPass(merged, cands) == Extend(merged, "sources", FindUrls(Join(<<"\n">>, cands)))

\* the body of the loop over the candidates at pc, for the candidate s
PassMerge(at, merged, s) ==
    CASE at = "fence"    -> MergeAll(merged, FenceObjects(s))
      [] at = "bare"     -> MergeAll(merged, BareObjects(s))
      [] at = "kv"       -> MergeKv(merged, ParseSummaryKvBlock(s))
      [] at = "markdown" -> ExtractFromMarkdown(merged, s)

RECURSIVE RunPasses(_, _, _, _)
\* lines 587-634: the four loops over the candidates from candidate n of the loop at on,
\* then the URL harvest; the value returned
RunPasses(at, merged, cands, n) ==
    IF at = "urls" THEN UrlPass(merged, cands)
    ELSE IF n > Len(cands)
         THEN RunPasses(CASE at = "fence" -> "bare" [] at = "bare" -> "kv"
                          [] at = "kv" -> "markdown" [] at = "markdown" -> "urls",
                        merged, cands, 1)
         ELSE RunPasses(at, PassMerge(at, merged, cands[n]), cands, n + 1)

(***************************************************************************)
(* Candidate collection (_dig_outputs, _collect_strings_deep and the       *)
(* collection loops of _extract_all_json_blocks / create_multislide_pptx)  *)
(***************************************************************************)
\* the default of the limit parameter of _collect_strings_deep
DeepLimit == 20000

\* the slice [:50] create_multislide_pptx takes of the deep strings of data
AlsoConsiderCap == 50

NonBlankStr(v) == IsStr(v) /\ Strip(v.s) # <<>>

RECURSIVE Walk(_), WalkAll(_)
\* walk(x) of _collect_strings_deep: the trimmed non-blank strings under x, depth first
Walk(v) ==
    IF IsStr(v) THEN (IF Strip(v.s) # <<>> THEN <<Strip(v.s)>> ELSE <<>>)
    ELSE IF IsDict(v) THEN WalkAll(SeqMap(LAMBDA e : e.items[1], v.items))
    ELSE IF IsList(v) THEN WalkAll(v.items)
    ELSE <<>>

WalkAll(vs) == IF vs = <<>> THEN <<>> ELSE Walk(Head(vs)) \o WalkAll(Tail(vs))

RECURSIVE UniqueWithinBudget(_, _, _, _)
\* the second loop of _collect_strings_deep: first occurrences, until total > limit
UniqueWithinBudget(out, res, total, limit) ==
    IF out = <<>> THEN res
    ELSE IF \E i \in 1..Len(res) : res[i] = Head(out)
         THEN UniqueWithinBudget(Tail(out), res, total, limit)
    ELSE IF total + Len(Head(out)) > limit THEN Append(res, Head(out))
    ELSE UniqueWithinBudget(Tail(out), Append(res, Head(out)), total + Len(Head(out)), limit)

\* _collect_strings_deep(obj, limit)
CollectStringsDeep(obj, limit) == UniqueWithinBudget(Walk(obj), <<>>, 0, limit)

\* what one value found under a key adds to the candidates; a blank string is added
\* only where the code does not test s.strip()
CandidatesOf(v, keepBlank) ==
    IF IsStr(v) THEN (IF keepBlank \/ Strip(v.s) # <<>> THEN <<v.s>> ELSE <<>>)
    ELSE IF IsDict(v) \/ IsList(v) THEN CollectStringsDeep(v, DeepLimit)
    ELSE <<>>

\* lines 492-556: the candidates one task block adds
BlockCandidates(blk) ==
    LET Direct(k) == CandidatesOf(Get(blk, k), FALSE)
        OfArtifact(a) ==
            IF IsDict(a)
            THEN Concat(SeqMap(LAMBDA k : CandidatesOf(Get(a, k), TRUE),
                               <<K.content, K.text, K.raw, K.result>>))
            ELSE <<>>
    IN  IF ~IsDict(blk) THEN <<>>
        ELSE Concat(SeqMap(Direct, <<K.raw, K.content, K.text, K.final_output, K.result,
                                     K.output, K.message>>))
             \o (IF IsList(Get(blk, K.artifacts))
                 THEN Concat(SeqMap(OfArtifact, Get(blk, K.artifacts).items))
                 ELSE <<>>)

\* lines 489-585: the candidates of a call _extract_all_json_blocks(tasks_output, also_consider)
CollectCandidates(blocks, also_consider) ==
    Concat(SeqMap(BlockCandidates, blocks))
    \o Concat(SeqMap(LAMBDA extra : CandidatesOf(extra, TRUE), also_consider))

\* _dig_outputs(result): [data, tasks_output, raised].  tasks_output is whatever is stored
\* under "tasks_output" / "tasks" (a list when nothing truthy is); raised: the final answer
\* is added with tasks_output + [...], a TypeError unless tasks_output is a list
DigOutputs(result) ==
    LET data == IF IsDict(result) /\ IsDict(Get(result, K.result)) THEN Get(result, K.result) ELSE result
        tasks == IF IsDict(data)
                 THEN Or(Or(Get(data, K.tasks_output), Get(data, K.tasks)), JArr(<<>>))
                 ELSE JArr(<<>>)
        final == IF IsDict(data)
                 THEN Or(Or(Or(Get(data, K.final_output), Get(data, K.raw)), Get(data, K.text)),
                         Get(data, K.content))
                 ELSE JNull
    IN  [data |-> data,
         raised |-> (IsStr(final) \/ IsDict(final)) /\ ~IsList(tasks),
         tasks_output |->
            IF ~IsList(tasks) THEN tasks
            ELSE IF IsStr(final) THEN JArr(Append(tasks.items, JObj(<<KV(K.content, final)>>)))
            ELSE IF IsDict(final) THEN JArr(Append(tasks.items, JObj(<<KV(K.result, final)>>)))
            ELSE tasks]

\* for blk in tasks_output or []: the values the loop visits (the keys of a dict, the
\* characters of a string); ok = FALSE when the value cannot be iterated (TypeError)
IterBlocks(v) ==
    IF ~Truthy(v) THEN [ok |-> TRUE, items |-> <<>>]
    ELSE IF IsList(v) THEN [ok |-> TRUE, items |-> v.items]
    ELSE IF IsDict(v) THEN [ok |-> TRUE, items |-> SeqMap(LAMBDA e : JStr(e.s), v.items)]
    ELSE IF IsStr(v) THEN [ok |-> TRUE, items |-> SeqMap(LAMBDA c : JStr(<<c>>), v.s)]
    ELSE [ok |-> FALSE, items |-> <<>>]

\* lines 699-728: also_consider, as a list of values (all of them strings)
AlsoConsider(data) ==
    LET deep == CollectStringsDeep(data, DeepLimit)
    IN  IF ~IsDict(data) THEN <<>>
        ELSE SelectSeq(SeqMap(LAMBDA k : Get(data, k),
                              <<K.summary, K.final_output, K.raw, K.content, K.text>>), NonBlankStr)
             \o SeqMap(JStr, SubSeq(deep, 1, IF Len(deep) < AlsoConsiderCap THEN Len(deep) ELSE AlsoConsiderCap))

(***************************************************************************)
(* The end of create_multislide_pptx: direct merge, summary fallback,     *)
(* final dedup                                                             *)
(***************************************************************************)
\* lines 733-740: data, then every task block and its result dict, merged directly
DirectObjects(data, blocks) ==
    LET OfBlock(blk) ==
            IF ~IsDict(blk) THEN <<>>
            ELSE IF IsDict(Get(blk, K.result)) THEN <<blk, Get(blk, K.result)>>
            ELSE <<blk>>
    IN  (IF IsDict(data) THEN <<data>> ELSE <<>>) \o Concat(SeqMap(OfBlock, blocks))

NoSummaryAvailable ==
    <<"N","o"," ","s","u","m","m","a","r","y"," ","a","v","a","i","l","a","b","l","e",".">>

\* lines 743-746
SummaryFallback(sections, data) ==
    LET s1 == IF IsDict(data) THEN StripVal(Get(data, K.summary)) ELSE <<>>
    IN  IF sections["summary"].s # <<>> THEN sections
        ELSE [sections EXCEPT !["summary"] = JStr(IF s1 # <<>> THEN s1 ELSE NoSummaryAvailable)]

RECURSIVE DedupeFrom(_, _, _)
\* the loop shared by _dedupe_list_keep_order and _dedupe_dict_rows: an item is kept when
\* its key is new
DedupeFrom(items, Key(_), out) ==
    IF items = <<>> THEN out
    ELSE IF \E i \in 1..Len(out) : Key(out[i]) = Key(Head(items))
         THEN DedupeFrom(Tail(items), Key, out)
    ELSE DedupeFrom(Tail(items), Key, Append(out, Head(items)))

\* empty items skipped, nothing else removed
DropEmptyOnly(items) == SelectSeq(items, LAMBDA it : it # <<>>)

\* _dedupe_list_keep_order(items): empty items are skipped, the key is the trimmed item
DedupeListKeepOrder(items) == DedupeFrom(SelectSeq(items, LAMBDA it : it # <<>>), Strip, <<>>)

\* the fingerprint of _dedupe_dict_rows: every field with its value trimmed
RowKey(r) == [k \in DOMAIN r |-> Strip(r[k])]

\* every row kept
AllRows(rows) == rows

\* _dedupe_dict_rows(rows)
DedupeDictRows(rows) == DedupeFrom(rows, RowKey, <<>>)

\* lines 758-762
FinalDedupe(sections) ==
    [k \in DOMAIN sections |->
        IF k \in {"trends", "insights", "opportunities", "risks", "sources"}
        THEN JArr(DedupeListKeepOrder(SeqMap(Strip, sections[k].items)))
        ELSE IF k \in {"competitors", "numbers"} THEN JArr(DedupeDictRows(sections[k].items))
        ELSE sections[k]]

\* lines 771-775: the display line of one recommendation row
RecLine(r) ==
    LET prefix == IF r.priority.t \in {"num", "bool"} THEN r.priority.s \o <<")", " ">> ELSE <<>>
    IN  StripSet(prefix \o Strip(r.action) \o <<" ","EMDASH"," ","W","h","y",":"," ">> \o Strip(r.rationale),
                 {" ", "EMDASH"})

\* lines 765-777
RecLines(sections) == DedupeListKeepOrder(SeqMap(RecLine, sections["recommendations"].items))

(***************************************************************************)
(* Inputs: the bundles a run starts from                                   *)
(***************************************************************************)
\* MaxFragments bounds the number of task blocks of a bundle
MaxFragments == 2

\* the texts the inputs are built from
Txt ==
    [a |-> <<"A">>,
     url |-> <<"h","t","t","p","s",":","/","/","x",".","t","e","s","t">>,
     s1 |-> <<"S","1">>,
     s2 |-> <<"S","2"," ","l","o","n","g","e","r"," ","t","h","a","n"," ","S","1">>,
     s3 |-> <<"S","3"," ","m","i","d">>,
     hello |-> <<"h","e","l","l","o"," ","w","o","r","l","d">>,
     growth |-> <<"G","r","o","w","t","h"," ","i","s"," ","s","t","e","a","d","y">>,
     cost |-> <<"c","o","s","t">>,
     lockin |-> <<"l","o","c","k"," ","i","n">>,
     churn |-> <<"C","h","u","r","n">>,
     x |-> <<"x">>,
     y |-> <<"y">>,
     alpha |-> <<"a","l","p","h","a">>,
     bravo |-> <<"b","r","a","v","o">>,
     charlie |-> <<" ","c","h","a","r","l","i","e"," ","x"," ">>,
     r1 |-> <<"r","1">>,
     r2 |-> <<"r","2">>,
     r3 |-> <<"r","3">>,
     t1 |-> <<"t","1">>,
     k1 |-> <<"k","1">>,
     i1 |-> <<"i","1">>,
     u1 |-> <<"u","1">>,
     T |-> <<"T">>,
     W |-> <<"W">>,
     D |-> <<"D">>,
     N |-> <<"N">>,
     P |-> <<"P">>,
     M |-> <<"M">>,
     S |-> <<"S">>,
     act |-> <<"a","c","t">>,
     because |-> <<"b","e","c","a","u","s","e">>,
     pylit |-> <<"{","'","n","a","m","e","'",":"," ","'","X","'",","," ","'","p","o","s","i","t","i","o","n","'",":"," ","'","Y","'","}">>,
     jslit |-> <<"{","\"","n","a","m","e","\"",":"," ","\"","X","\"","}">>]

\* task outputs as agents write them: strict JSON, fenced JSON, a key=value block,
\* a risks section and a summary section
Fragment ==
    [strict |-> <<"{","\"","t","r","e","n","d","s","\"",":","[","\"","A","\"","]",",","\"","s","o","u","r","c","e","s","\"",":","[","\"","h","t","t","p","s",":","/","/","x",".","t","e","s","t","\"","]","}">>,
     fenced |-> <<"BACKTICK","BACKTICK","BACKTICK","j","s","o","n","\n","{","\"","t","r","e","n","d","s","\"",":","[","\"","A","\"","]","}","\n","BACKTICK","BACKTICK","BACKTICK">>,
     kv |-> <<"s","u","m","m","a","r","y","=","\"","h","e","l","l","o"," ","w","o","r","l","d","\"",","," ","k","e","y","_","p","o","i","n","t","s","=","[","\"","a","\"",",","\"","b","\"","]">>,
     risks |-> <<"R","i","s","k","s",":","\n","-"," ","a","\n","-"," ","b","\n","-"," ","c">>,
     summary |-> <<"E","x","e","c","u","t","i","v","e"," ","S","u","m","m","a","r","y","\n","G","r","o","w","t","h"," ","i","s"," ","s","t","e","a","d","y">>]

\* prose with two complete JSON objects embedded, each carrying a summary
Embedded(s1, s2) ==
    <<"I","n","t","r","o"," ","t","e","x","t"," ","{","\"","s","u","m","m","a","r","y","\"",":","\"">> \o s1
    \o <<"\"","}"," ","m","i","d","d","l","e"," ","{","\"","s","u","m","m","a","r","y","\"",":","\"">> \o s2
    \o <<"\"","}"," ","t","r","a","i","l","i","n","g">>

\* two complete JSON objects with text between them and nothing around them
Concatenated(s1, s2) ==
    <<"{","\"","s","u","m","m","a","r","y","\"",":","\"">> \o s1
    \o <<"\"","}"," ","t","e","x","t"," ","{","\"","s","u","m","m","a","r","y","\"",":","\"">> \o s2
    \o <<"\"","}">>

SummaryTexts == {Txt.s1, Txt.s2, Txt.s3}

BraceFragments == {Embedded(p[1], p[2]) : p \in {q \in SummaryTexts \X SummaryTexts : q[1] # q[2]}}

ConcatenatedFragments ==
    {Concatenated(p[1], p[2]) : p \in {q \in SummaryTexts \X SummaryTexts : q[1] # q[2]}}

\* the bare objects that are put inside a fence
FenceBodies == {Fragment.strict, <<"{","\"","s","u","m","m","a","r","y","\"",":","\"","S","1","\"",",","\"","r","i","s","k","s","\"",":","[","\"","x","\"","]","}">>}

\* body inside a triple-backtick fence: prose before and after or none, the json
\* annotation or none, the fence markers on lines of their own or not
Fenced(pre, ann, sep, body, post) == pre \o Backticks \o ann \o sep \o body \o sep \o Backticks \o post

\* the fenced fragments around one body
FencedWith(body) ==
    {Fenced(pre, ann, sep, body, post) :
        pre \in {<<>>, <<"I","n","t","r","o","\n">>},
        ann \in {<<>>, <<"j","s","o","n">>},
        sep \in {<<>>, <<"\n">>},
        post \in {<<>>, <<"\n","O","u","t","r","o">>}}

FencedFragments == UNION {FencedWith(body) : body \in FenceBodies}

\* fragments that are one top-level JSON array: of strings, and of objects
ArrayFragment ==
    [strings |-> <<"[","\"","a","l","p","h","a","\"",",","\"","b","r","a","v","o","\"","]">>,
     objects |-> <<"[","{","\"","n","a","m","e","\"",":","\"","N","\"",",","\"","p","o","s","i","t","i","o","n","\"",":","\"","P","\"","}",",","{","\"","m","e","t","r","i","c","\"",":","\"","M","\"",",","\"","v","a","l","u","e","\"",":","5","}",",","{","\"","p","r","i","o","r","i","t","y","\"",":","1",",","\"","a","c","t","i","o","n","\"",":","\"","a","c","t","\"","}",",","{","\"","f","o","o","\"",":","\"","b","a","r","\"","}","]">>]

\* the heading lines that announce the risks section: the English and the Norwegian alias,
\* in several letter cases, with or without leading '#' and trailing colon
RiskHeadings ==
    {pre \o word \o post :
        pre \in {<<>>, <<"#">>, <<"#", "#", " ">>},
        word \in {<<"r","i","s","k","s">>, <<"R","I","S","K","S">>, <<"R","i","s","i","k","o">>, <<"r","i","s","i","k","o">>},
        post \in {<<>>, <<":">>}}

\* the markers BULLET removes
BulletMarkers == {<<"-", " ">>, <<"*", " ">>, <<"BULLET", " ">>}

\* the markers of the three bullet lines of a risks fragment
MarkerChoices ==
    {<<m, m, m>> : m \in BulletMarkers} \cup {<<<<"-", " ">>, <<"*", " ", " ">>, <<"BULLET", "\t">>>>}

BulletTexts == <<Txt.cost, Txt.lockin, Txt.churn>>

\* a heading line followed by three bullet lines
RiskFragment(h, ms) ==
    h \o <<"\n">> \o ms[1] \o BulletTexts[1] \o <<"\n">> \o ms[2] \o BulletTexts[2]
      \o <<"\n">> \o ms[3] \o BulletTexts[3]

RiskFragments == {RiskFragment(h, ms) : h \in RiskHeadings, ms \in MarkerChoices}

\* heading lines of the sections flush() handles as lists, each with its canonical key
SectionHeadings ==
    {[h |-> <<"R","i","s","k","s">>, key |-> "risks"],
     [h |-> <<"T","r","e","n","d","e","r",":">>, key |-> "trends"],
     [h |-> <<"#"," ","S","o","u","r","c","e","s">>, key |-> "sources"],
     [h |-> <<"M","u","l","i","g","h","e","t","e","r">>, key |-> "opportunities"],
     [h |-> <<"F","i","n","d","i","n","g","s",":">>, key |-> "insights"],
     [h |-> <<"C","o","m","p","e","t","i","t","o","r","s">>, key |-> "competitors"]}

\* the lines of a section: "- x" and "- y", with the line lit put at position pos
SectionLines(lit, pos) ==
    IF pos = 1 THEN <<lit, <<"-", " ">> \o Txt.x, <<"-", " ">> \o Txt.y>>
    ELSE IF pos = 2 THEN <<<<"-", " ">> \o Txt.x, lit, <<"-", " ">> \o Txt.y>>
    ELSE <<<<"-", " ">> \o Txt.x, <<"-", " ">> \o Txt.y, lit>>

\* a section whose lines hold one serialized mapping literal, bulleted or not
DictLineFragment(h, lit, pos) == Join(<<"\n">>, <<h>> \o SectionLines(lit, pos))

MappingLines == {m \o l : m \in {<<>>, <<"-", " ">>}, l \in {Txt.pylit, Txt.jslit}}

DictLineFragments ==
    {DictLineFragment(sh.h, lit, pos) : sh \in SectionHeadings, lit \in MappingLines, pos \in 1..3}

\* structured partials, as an agent returns them in the result field of a task block
Partial ==
    [sumA |-> JObj(<<KV(K.summary, JStr(Txt.alpha)),
                     KV(K.risks, JArr(<<JStr(Txt.r1), JStr(Txt.r2)>>))>>),
     sumB |-> JObj(<<KV(K.summary, JStr(Txt.bravo)),
                     KV(K.risks, JArr(<<JStr(Txt.r2), JStr(Txt.r3)>>)),
                     KV(K.sources, JArr(<<JStr(Txt.u1)>>))>>),
     sumLong |-> JObj(<<KV(K.summary, JStr(Txt.charlie)),
                        KV(K.trends, JArr(<<JStr(Txt.t1),
                                            JObj(<<KV(K.title, JStr(Txt.T)),
                                                   KV(K.why_it_matters, JStr(Txt.W))>>)>>)),
                        KV(K.key_points, JArr(<<JStr(Txt.k1)>>))>>),
     rows |-> JObj(<<KV(K.competitors, JArr(<<JObj(<<KV(K.name, JStr(Txt.N)),
                                                     KV(K.position, JStr(Txt.P))>>)>>)),
                     KV(K.numbers, JArr(<<JObj(<<KV(K.metric, JStr(Txt.M)),
                                                 KV(K.value, JNum(<<"5">>)),
                                                 KV(K.source, JStr(Txt.S))>>)>>)),
                     KV(K.recommendations, JArr(<<JObj(<<KV(K.priority, JNum(<<"1">>)),
                                                         KV(K.action, JStr(Txt.act)),
                                                         KV(K.rationale, JStr(Txt.because))>>)>>))>>),
     research |-> JObj(<<KV(K.research,
                            JObj(<<KV(K.trends, JArr(<<JObj(<<KV(K.title, JStr(Txt.T)),
                                                              KV(K.detail, JStr(Txt.D))>>)>>)),
                                   KV(K.risks, JArr(<<JStr(Txt.r1)>>)),
                                   KV(K.competitors, JArr(<<JObj(<<KV(K.name, JStr(Txt.N)),
                                                                   KV(K.role, JStr(Txt.P))>>)>>))>>)),
                         KV(K.insights, JArr(<<JStr(Txt.i1)>>))>>)]

Partials == {Partial[n] : n \in DOMAIN Partial}

\* one recommendation object
RecObject(priority, action, rationale) ==
    JObj(<<KV(K.priority, priority), KV(K.action, JStr(action)), KV(K.rationale, JStr(rationale))>>)

\* single objects that probe one rule of the merge each
Probe ==
    [recsPrio |-> JObj(<<KV(K.recommendations,
                            JArr(<<RecObject(JNum(<<"1">>), Txt.act, Txt.because),
                                   RecObject(JNum(<<"2">>), Txt.act, Txt.because)>>))>>),
     recsMixed |-> JObj(<<KV(K.recommendations,
                             JArr(<<JStr(<<"d","o"," ","i","t">>),
                                    RecObject(JStr(<<"2">>), Txt.act, Txt.because)>>))>>),
     blankTrend |-> JObj(<<KV(K.trends, JArr(<<JStr(<<" ", " ">>), JStr(<<"A", " ">>)>>)),
                           KV(K.risks, JArr(<<JStr(<<" ", " ">>), JStr(<<" ", "x", " ">>)>>))>>)]

Probes == {Probe[n] : n \in DOMAIN Probe}

\* {key: value}
Single(key, value) == JObj(<<KV(key, value)>>)

\* {"research": obj}
InResearch(obj) == Single(K.research, obj)

\* objects that use a synonym of a key, each with the object that uses the canonical key
Synonym ==
    LET actors  == JArr(<<JObj(<<KV(K.name, JStr(Txt.N)), KV(K.position, JStr(Txt.P))>>)>>)
        metrics == JArr(<<JObj(<<KV(K.metric, JStr(Txt.M)), KV(K.value, JNum(<<"5">>)),
                                 KV(K.source, JStr(Txt.S))>>)>>)
        points  == JArr(<<JStr(Txt.k1)>>)
    IN  [executive_summary |-> [obj |-> Single(<<"e","x","e","c","u","t","i","v","e","_","s","u","m","m","a","r","y">>, JStr(Txt.alpha)),
                                canonical |-> Single(K.summary, JStr(Txt.alpha))],
         summary_long |-> [obj |-> Single(<<"s","u","m","m","a","r","y","_","l","o","n","g">>, JStr(Txt.alpha)),
                           canonical |-> Single(K.summary, JStr(Txt.alpha))],
         actors |-> [obj |-> Single(K.actors, actors), canonical |-> Single(K.competitors, actors)],
         metrics |-> [obj |-> Single(K.metrics, metrics), canonical |-> Single(K.numbers, metrics)],
         highlights |-> [obj |-> Single(K.highlights, points), canonical |-> Single(K.key_points, points)],
         nested_actors |-> [obj |-> Single(K.research, Single(K.actors, actors)),
                            canonical |-> Single(K.research, Single(K.competitors, actors))],
         nested_highlights |-> [obj |-> Single(K.research, Single(K.highlights, points)),
                                canonical |-> Single(K.key_points, points)]]

\* result = {"tasks_output": [{"raw": f} for f in frags]}
TaskBundle(frags) ==
    JObj(<<KV(K.tasks_output, JArr([n \in 1..Len(frags) |-> JObj(<<KV(K.raw, JStr(frags[n]))>>)]))>>)

\* result = {"tasks_output": [{"result": p} for p in parts]}
StructuredBundle(parts) ==
    JObj(<<KV(K.tasks_output, JArr([n \in 1..Len(parts) |-> JObj(<<KV(K.result, parts[n])>>)]))>>)

\* one text under two keys of a task block, inside its nested result, and in a second
\* task block
RepeatedBundle ==
    LET padded == <<" ">> \o Txt.hello \o <<" ">>
    IN  JObj(<<KV(K.tasks_output,
                  JArr(<<JObj(<<KV(K.raw, JStr(padded)), KV(K.content, JStr(padded)),
                                KV(K.result, JObj(<<KV(K.notes, JStr(padded)),
                                                    KV(K.insights, JArr(<<JStr(Txt.hello)>>))>>))>>),
                         JObj(<<KV(K.raw, JStr(padded))>>)>>))>>)

\* a task block whose text alone is longer than the budget of _collect_strings_deep,
\* followed by a short one
OverBudgetBundle == TaskBundle(<<[n \in 1..(DeepLimit + 1) |-> "x"], Txt.y>>)

\* the kinds of line a segmenter fragment is made of: text is the line, heading the
\* section a heading line announces ("" for any other line), item the entry a content
\* line stands for (empty for a heading and for a blank line)
SegLine ==
    [risks  |-> [text |-> <<"R","i","s","k","s">>, heading |-> "risks", item |-> <<>>],
     trends |-> [text |-> <<"#","#"," ","K","e","y"," ","T","r","e","n","d","s",":">>, heading |-> "trends", item |-> <<>>],
     bullet |-> [text |-> <<"-"," ","x">>, heading |-> "", item |-> Txt.x],
     plain  |-> [text |-> Txt.y, heading |-> "", item |-> Txt.y],
     hash   |-> [text |-> <<"#"," ","n","o","t","e">>, heading |-> "", item |-> <<"#"," ","n","o","t","e">>],
     blank  |-> [text |-> <<" ", " ">>, heading |-> "", item |-> <<>>]]

\* MaxLines bounds the lines of a segmenter fragment
MaxLines == 3

\* every arrangement of up to MaxLines lines
SegmentPlans == UNION {[1..n -> {SegLine[k] : k \in DOMAIN SegLine}] : n \in 1..MaxLines}

\* the fragment text of an arrangement of lines
PlanText(plan) == Join(<<"\n">>, [n \in 1..Len(plan) |-> plan[n].text])

\* lines of a competitors or numbers section: three fields between spaced hyphens, a
\* hyphenated word between spaced hyphens, a URL after a spaced colon, spaced em-dashes,
\* two fields, one field
RowLine ==
    [spaced     |-> <<"A","c","m","e"," ","-"," ","l","e","a","d","e","r"," ","-"," ","f","a","s","t">>,
     hyphenated |-> <<"A","c","m","e"," ","-"," ","s","t","a","t","e","-","o","f","-","t","h","e","-","a","r","t"," ","-"," ","f","a","s","t">>,
     link       |-> <<"S","i","t","e"," ",":"," ","h","t","t","p","s",":","/","/","x",".","t","e","s","t"," ",";"," ","o","k">>,
     emdash     |-> <<"A","c","m","e"," ","EMDASH"," ","l","e","a","d","e","r"," ","EMDASH"," ","f","a","s","t">>,
     two        |-> <<"A","c","m","e"," ","-"," ","l","e","a","d","e","r">>,
     one        |-> <<"A","c","m","e">>]

\* the headings of the two sections whose lines become rows
RowHeading == [competitors |-> <<"C","o","m","p","e","t","i","t","o","r","s">>, numbers |-> <<"K","e","y"," ","n","u","m","b","e","r","s">>]

\* a fragment with one heading and one bulleted line under it
RowFragment(k, n) == RowHeading[k] \o <<"\n", "-", " ">> \o RowLine[n]

RowFragments == {RowFragment(k, n) : k \in DOMAIN RowHeading, n \in DOMAIN RowLine}

\* the kinds of line a recommendations section is made of: text is the line, prio the
\* number the line announces (-1 when it announces none), action and rationale the two
\* parts the line is written with
RecKind ==
    [tagged  |-> [text |-> <<"[","P","r","i","o","r","i","t","e","t"," ","2","]"," ","a","c","t"," ","ENDASH"," ","b","e","c","a","u","s","e">>,
                  prio |-> 2, action |-> <<"a","c","t">>, rationale |-> <<"b","e","c","a","u","s","e">>],
     zero    |-> [text |-> <<"P","R","I","O","R","I","T","E","T"," ","0"," ","g","o"," ","-"," ","n","o","w">>,
                  prio |-> 0, action |-> <<"g","o">>, rationale |-> <<"n","o","w">>],
     english |-> [text |-> <<"[","p","r","i","o","r","i","t","y"," ","3","]"," ","d","o"," ","-"," ","s","o">>,
                  prio |-> 3, action |-> <<"d","o">>, rationale |-> <<"s","o">>],
     hyphen  |-> [text |-> <<"o","t","h","e","r"," ","-"," ","w","h","y">>,
                  prio |-> -1, action |-> <<"o","t","h","e","r">>, rationale |-> <<"w","h","y">>],
     emdash  |-> [text |-> <<"r","u","n"," ","EMDASH"," ","f","a","r">>,
                  prio |-> -1, action |-> <<"r","u","n">>, rationale |-> <<"f","a","r">>]]

\* every arrangement of up to MaxLines recommendation lines
RecPlans == UNION {[1..n -> {RecKind[k] : k \in DOMAIN RecKind}] : n \in 1..MaxLines}

\* the fragment of an arrangement: the heading, then the lines as bullets
RecPlanText(plan) ==
    Join(<<"\n">>, <<<<"R","e","c","o","m","m","e","n","d","a","t","i","o","n","s">>>> \o [n \in 1..Len(plan) |-> <<"-", " ">> \o plan[n].text])

\* a fragment with two recommendations sections, another section between them
TwoFlushFragment ==
    <<"R","e","c","o","m","m","e","n","d","a","t","i","o","n","s","\n","-"," ","x","\n","R","i","s","k","s","\n","-"," ","r","1","\n","R","e","c","o","m","m","e","n","d","a","t","i","o","n","s","\n","-"," ","o","t","h","e","r"," ","-"," ","w","h","y">>

\* prose that mentions URLs: one URL, the same URL twice, a URL in parentheses, a URL
\* listed under a sources heading, a URL with another scheme
UrlFragment ==
    [once   |-> <<"s","e","e"," ","h","t","t","p","s",":","/","/","x",".","t","e","s","t"," ","n","o","w">>,
     twice  |-> <<"s","e","e"," ","h","t","t","p","s",":","/","/","x",".","t","e","s","t"," ","a","n","d"," ","h","t","t","p","s",":","/","/","x",".","t","e","s","t">>,
     paren  |-> <<"(","h","t","t","p","s",":","/","/","x",".","t","e","s","t",")"," ","o","k">>,
     listed |-> <<"S","o","u","r","c","e","s","\n","-"," ","h","t","t","p","s",":","/","/","x",".","t","e","s","t">>,
     ftp    |-> <<"s","e","e"," ","f","t","p",":","/","/","x",".","t","e","s","t"," ","n","o","w">>]

UrlFragments == {UrlFragment[k] : k \in DOMAIN UrlFragment}

\* the two keys a trend object is written with for its reason
WhyKeys == {K.why_it_matters, <<"w","h","y">>}

\* the components of a trend object: title, reason and evidence, each empty or one word
TrendParts == {<<>>, Txt.T} \X {<<>>, Txt.W} \X {<<>>, Txt.D}

\* the JSON text of an object whose trends list holds one trend object with the
\* components p, the reason under the key whyKey
TrendObjectText(whyKey, p) ==
    <<"{","\"","t","r","e","n","d","s","\"",":","[","{","\"","t","i","t","l","e","\"",":","\"">> \o p[1]
    \o <<"\"",",","\"">> \o whyKey \o <<"\"",":","\"">> \o p[2]
    \o <<"\"",",","\"","e","v","i","d","e","n","c","e","\"",":","\"">> \o p[3] \o <<"\"","}","]","}">>

TrendObjectFragments == {TrendObjectText(k, p) : k \in WhyKeys, p \in TrendParts}

\* prose with a closing brace that no opening brace precedes, then a complete object
StrayBraceFragment ==
    <<"o","o","p","s"," ","}"," ","t","h","e","n"," ","{","\"","s","u","m","m","a","r","y","\"",":"," ","\"">>
    \o Txt.hello \o <<"\"","}"," ","e","n","d">>

\* fragments no strategy recovers anything from: unbalanced braces, a closing brace
\* first and no closing brace last, a fence that is never closed, plain prose
FailingFragments ==
    {<<"{","{","{"," ","\"","a","\"",":"," ","1"," ","}"," ","}">>,
     <<"}"," ","}"," ","{"," ","\"","s","u","m","m","a","r","y","\"",":"," ","\"","x","\"">>,
     <<"BACKTICK","BACKTICK","BACKTICK","j","s","o","n","\n","{","\"","s","u","m","m","a","r","y","\"",":","\"","x","\"">>,
     Txt.hello}

\* fs with f put in as fragment n
InsertAt(fs, n, f) == SubSeq(fs, 1, n - 1) \o <<f>> \o SubSeq(fs, n, Len(fs))

\* a bundle that stores v where the list of task blocks is expected
ContainerBundle(v) == JObj(<<KV(K.tasks_output, v)>>)

\* malformed bundles: fragments with unbalanced braces or an unclosed fence, no task
\* block at all, leaves that are not strings, a container that is not a list, and a
\* container that is not a list next to a final answer
MalformedBundles ==
    {TaskBundle(<<f>>) : f \in FailingFragments}
    \cup {ContainerBundle(v) :
            v \in {JArr(<<>>),
                   JArr(<<JObj(<<KV(K.raw, JNum(<<"5">>)), KV(K.content, JNull),
                                 KV(K.result, JObj(<<KV(K.notes, JArr(<<JNum(<<"1">>), JBool(FALSE)>>))>>))>>)>>),
                   JObj(<<KV(K.raw, JStr(Txt.x))>>),
                   JStr(Txt.x),
                   JNum(<<"5">>),
                   JBool(TRUE)}}
    \cup {JObj(<<KV(K.tasks_output, JObj(<<KV(K.raw, JStr(Txt.x))>>)), KV(K.final_output, JStr(Txt.hello))>>),
          JNull}

CoreFragments ==
    {Fragment.strict, Embedded(Txt.s1, Txt.s2), Fragment.fenced, Fragment.kv, Fragment.risks,
     Fragment.summary}

\* the bundles of core fragments with one failing fragment put in at any place
WithFailing ==
    {InsertAt(p[1], p[2], f) :
        p \in {q \in (UNION {[1..m -> CoreFragments] : m \in 1..(MaxFragments - 1)}) \X (1..MaxFragments) :
                  q[2] <= Len(q[1]) + 1},
        f \in FailingFragments}

Bundles ==
    {TaskBundle(fs) : fs \in UNION {[1..n -> CoreFragments] : n \in 1..MaxFragments}}
    \cup {StructuredBundle(ps) : ps \in UNION {[1..n -> Partials] : n \in 1..MaxFragments}}
    \cup {TaskBundle(<<f>>) : f \in BraceFragments \cup ConcatenatedFragments \cup FencedFragments
                                    \cup {ArrayFragment.strings, ArrayFragment.objects} \cup RiskFragments
                                    \cup DictLineFragments \cup RowFragments \cup UrlFragments
                                    \cup TrendObjectFragments \cup {StrayBraceFragment}}
    \cup MalformedBundles
    \cup {RepeatedBundle, OverBudgetBundle}
    \cup {TaskBundle(<<PlanText(plan)>>) : plan \in SegmentPlans}
    \cup {TaskBundle(<<RecPlanText(plan)>>) : plan \in RecPlans}
    \cup {TaskBundle(<<TwoFlushFragment>>)}
    \cup {StructuredBundle(<<p>>) : p \in Probes}
    \cup {StructuredBundle(<<InResearch(p)>>) : p \in Partials}
    \cup {StructuredBundle(<<InResearch(InResearch(p))>>) : p \in Partials}
    \cup {StructuredBundle(<<Synonym[n].obj>>) : n \in DOMAIN Synonym}
    \cup {TaskBundle(fs) : fs \in WithFailing}

(***************************************************************************)
(* One call of create_multislide_pptx(result, ...) (entry = "pptx") or of  *)
(* _extract_all_json_blocks(tasks_output) alone (entry = "extract")        *)
(***************************************************************************)
VARIABLES
    entry,         \* which function was called
    result,        \* the bundle passed in
    pc,            \* the position in the code
    data,          \* _dig_outputs(result)[0]
    tasks_output,  \* the task blocks the loops over _dig_outputs(result)[1] visit
    candidates,    \* the candidate strings of _extract_all_json_blocks
    merged,        \* the accumulator (sections, once returned to create_multislide_pptx)
    i,             \* the loop index of the running pass
    rec_lines      \* the recommendation lines of the deck

pipeVars == <<entry, result, pc, data, tasks_output, candidates, merged, i, rec_lines>>

\* the server process of src/main.py: the module-level CREW_STATE and the threads that
\* call build_llm_and_crew_once
VARIABLES
    CREW_STATE,    \* the module-level dict: ready, error, crew, llm
    thread,        \* per thread: where it is in build_llm_and_crew_once and the crew it holds
    calls,         \* per thread: the calls of build_llm_and_crew_once it has made
    loads          \* how many times the loader functions have been run to build a crew

crewVars == <<CREW_STATE, thread, calls, loads>>

\* the job store of src/web/fastapi_app.py: JOBS holds the jobs in the order they were
\* created (a job id is a position in it), runner[j] is where the background run of job j
\* stands, response is the answer to the most recent request
VARIABLES
    JOBS,
    runner,
    response

jobVars == <<JOBS, runner, response>>

vars == <<pipeVars, crewVars, jobVars>>

\* MaxCalls bounds the requests each handler thread serves
MaxCalls == 2

\* the startup warm-up thread and the threadpool threads that serve /status and /run
Threads == {"warm", "status", "run"}

\* line 40, and no thread inside build_llm_and_crew_once
CrewInit ==
    /\ CREW_STATE = [ready |-> FALSE, error |-> "None", crew |-> 0, llm |-> 0]
    /\ thread = [t \in Threads |-> [at |-> "idle", crew |-> 0]]
    /\ calls = [t \in Threads |-> 0]
    /\ loads = 0

\* JOBS = {}: no job, no request answered yet
JobInit ==
    /\ JOBS = <<>>
    /\ runner = <<>>
    /\ response = [code |-> 0, job_id |-> 0, status |-> "", result |-> "None", error |-> "None"]

Init ==
    /\ entry \in {"extract", "pptx"}
    /\ result \in Bundles
    /\ pc = "start"
    /\ data = JNull
    /\ tasks_output = <<>>
    /\ candidates = <<>>
    /\ merged = EmptyAccumulator
    /\ i = 1
    /\ rec_lines = <<>>
    /\ CrewInit
    /\ JobInit

\* the call ends with an exception: it leaves _extract_all_json_blocks as raised, and
\* create_multislide_pptx catches it and returns its error dict (lines 833-840)
Fail ==
    /\ pc' = IF entry = "pptx" THEN "failed" ELSE "raised"
    /\ UNCHANGED <<crewVars, jobVars, entry, result, data, tasks_output, candidates, merged, i, rec_lines>>

\* lines 698-728 and 488-585: the outputs are dug out and the candidates collected
Collect(dig, blocks) ==
    IF dig.raised \/ ~blocks.ok THEN Fail
    ELSE /\ data' = dig.data
         /\ tasks_output' = blocks.items
         /\ candidates' = CollectCandidates(blocks.items,
                                            IF entry = "pptx" THEN AlsoConsider(dig.data) ELSE <<>>)
         /\ merged' = EmptyAccumulator
         /\ pc' = IF candidates' = <<>> THEN "urls" ELSE "fence"
         /\ UNCHANGED <<crewVars, jobVars, entry, result, i, rec_lines>>

Prepare ==
    /\ pc = "start"
    /\ Collect(DigOutputs(result), IterBlocks(DigOutputs(result).tasks_output))

\* one turn of one of the four loops over the candidates, and the move to the next loop
\* after the last candidate
LoopStep(here, next, m) ==
    /\ pc = here
    /\ merged' = m
    /\ IF i < Len(candidates) THEN i' = i + 1 /\ pc' = here ELSE i' = 1 /\ pc' = next
    /\ UNCHANGED <<crewVars, jobVars, entry, result, data, tasks_output, candidates, rec_lines>>

\* lines 588-596
FenceStep == LoopStep("fence", "bare", MergeAll(merged, FenceObjects(candidates[i])))

\* lines 599-607
BareStep == LoopStep("bare", "kv", MergeAll(merged, BareObjects(candidates[i])))

\* lines 610-624
KvStep == LoopStep("kv", "markdown", MergeKv(merged, ParseSummaryKvBlock(candidates[i])))

\* lines 627-628
MarkdownStep == LoopStep("markdown", "urls", ExtractFromMarkdown(merged, candidates[i]))

\* lines 631-634: the URLs are harvested and merged is returned
UrlHarvest ==
    /\ pc = "urls"
    /\ merged' = UrlPass(merged, candidates)
    /\ pc' = "returned"
    /\ UNCHANGED <<crewVars, jobVars, entry, result, data, tasks_output, candidates, i, rec_lines>>

\* line 730: create_multislide_pptx takes the returned accumulator as sections
Resume ==
    /\ pc = "returned"
    /\ entry = "pptx"
    /\ pc' = IF DirectObjects(data, tasks_output) = <<>> THEN "fallback" ELSE "direct"
    /\ UNCHANGED <<crewVars, jobVars, entry, result, data, tasks_output, candidates, merged, i, rec_lines>>

\* lines 733-740: one structured dict merged directly
DirectMergeStep ==
    /\ pc = "direct"
    /\ merged' = MergeJsonInto(merged, DirectObjects(data, tasks_output)[i])
    /\ IF i < Len(DirectObjects(data, tasks_output))
       THEN i' = i + 1 /\ pc' = "direct"
       ELSE i' = 1 /\ pc' = "fallback"
    /\ UNCHANGED <<crewVars, jobVars, entry, result, data, tasks_output, candidates, rec_lines>>

\* lines 743-746
SummaryFallbackStep ==
    /\ pc = "fallback"
    /\ merged' = SummaryFallback(merged, data)
    /\ pc' = "dedupe"
    /\ UNCHANGED <<crewVars, jobVars, entry, result, data, tasks_output, candidates, i, rec_lines>>

\* lines 758-777: the final dedup of the sections and of the recommendation lines
DedupeStep ==
    /\ pc = "dedupe"
    /\ merged' = FinalDedupe(merged)
    /\ rec_lines' = RecLines(merged)
    /\ pc' = "done"
    /\ UNCHANGED <<crewVars, jobVars, entry, result, data, tasks_output, candidates, i>>

Next ==
    \/ Prepare
    \/ FenceStep
    \/ BareStep
    \/ KvStep
    \/ MarkdownStep
    \/ UrlHarvest
    \/ Resume
    \/ DirectMergeStep
    \/ SummaryFallbackStep
    \/ DedupeStep

Spec == Init /\ [][Next]_vars

(***************************************************************************)
(* The server of src/main.py: build_llm_and_crew_once called by the        *)
(* warm-up thread and by the request handlers                              *)
(***************************************************************************)
\* the server starts: nothing is built, no normalization call is under way
ServerInit ==
    /\ CrewInit
    /\ JobInit
    /\ entry = "extract"
    /\ result = JNull
    /\ pc = "start"
    /\ data = JNull
    /\ tasks_output = <<>>
    /\ candidates = <<>>
    /\ merged = EmptyAccumulator
    /\ i = 1
    /\ rec_lines = <<>>

\* lines 63-64, entered from the warm-up thread (lines 166-173, once) or from a handler
\* (status, lines 176-180; run_crew_pipeline, line 191): return at once when a crew is
\* ready, go on to the loaders otherwise
EnterBuild(t) ==
    /\ thread[t].at = "idle"
    /\ calls[t] < (IF t = "warm" THEN 1 ELSE MaxCalls)
    /\ calls' = [calls EXCEPT ![t] = @ + 1]
    /\ thread' = [thread EXCEPT ![t].at = IF CREW_STATE.ready /\ CREW_STATE.crew # 0
                                          THEN "idle" ELSE "loading"]
    /\ UNCHANGED <<CREW_STATE, loads, pipeVars, jobVars>>

\* lines 66-156: the loaders run.  fault = "llm": load_llm raises; "crew": a later loader
\* raises, after line 99 stored the LLM; "none": load_crew returns a new crew
RunLoaders(t) ==
    /\ thread[t].at = "loading"
    /\ loads' = loads + 1
    /\ \E fault \in {"llm", "crew", "none"} :
          /\ CREW_STATE' = IF fault = "llm" THEN CREW_STATE
                           ELSE [CREW_STATE EXCEPT !.llm = loads']
          /\ thread' = [thread EXCEPT ![t] = IF fault = "none"
                                             THEN [at |-> "built", crew |-> loads']
                                             ELSE [at |-> "raised", crew |-> 0]]
    /\ UNCHANGED <<calls, pipeVars, jobVars>>

\* lines 158-163: CREW_STATE.update(...) with the crew built or with the error caught,
\* and return CREW_STATE
RecordOutcome(t) ==
    /\ thread[t].at \in {"built", "raised"}
    /\ CREW_STATE' = IF thread[t].at = "built"
                     THEN [CREW_STATE EXCEPT !.crew = thread[t].crew, !.ready = TRUE, !.error = "None"]
                     ELSE [CREW_STATE EXCEPT !.ready = FALSE, !.error = "Exception"]
    /\ thread' = [thread EXCEPT ![t] = [at |-> "idle", crew |-> 0]]
    /\ UNCHANGED <<calls, loads, pipeVars, jobVars>>

ServerNext ==
    \E t \in Threads :
        \/ EnterBuild(t)
        \/ RunLoaders(t)
        \/ RecordOutcome(t)

ServerSpec == ServerInit /\ [][ServerNext]_vars

(***************************************************************************)
(* The job store of the web API (src/web/fastapi_app.py).  run_task and    *)
(* get_status are plain functions, which the framework runs on worker      *)
(* threads, and run_job is a background task on a worker thread as well:   *)
(* the statements of run_job interleave with the requests                  *)
(***************************************************************************)
\* MaxJobs bounds the number of jobs created
MaxJobs == 2

\* the topics a run request carries: blank, and a word
Topics == {<<" ">>, Txt.x}

\* POST /api/run: a blank topic is refused; otherwise a job is stored as queued, its
\* background run is scheduled and the job id is answered
run_task(topic) ==
    IF Strip(topic) = <<>>
    THEN /\ response' = [code |-> 400, job_id |-> 0, status |-> "", result |-> "None", error |-> "None"]
         /\ UNCHANGED <<JOBS, runner, pipeVars, crewVars>>
    ELSE /\ Len(JOBS) < MaxJobs
         /\ JOBS' = Append(JOBS, [status |-> "queued", result |-> "None", error |-> "None"])
         /\ runner' = Append(runner, "scheduled")
         /\ response' = [code |-> 202, job_id |-> Len(JOBS) + 1, status |-> "queued",
                         result |-> "None", error |-> "None"]
         /\ UNCHANGED <<pipeVars, crewVars>>

\* line 75: JOBS[job_id]["status"] = "running"
run_job_running(j) ==
    /\ runner[j] = "scheduled"
    /\ JOBS' = [JOBS EXCEPT ![j].status = "running"]
    /\ runner' = [runner EXCEPT ![j] = "kickoff"]
    /\ UNCHANGED <<response, pipeVars, crewVars>>

\* line 76: CREW.kickoff returns a result or raises
run_job_kickoff(j) ==
    /\ runner[j] = "kickoff"
    /\ \E raised \in BOOLEAN : runner' = [runner EXCEPT ![j] = IF raised THEN "raised" ELSE "returned"]
    /\ UNCHANGED <<JOBS, response, pipeVars, crewVars>>

\* line 77: JOBS[job_id]["status"] = "completed"
run_job_completed(j) ==
    /\ runner[j] = "returned"
    /\ JOBS' = [JOBS EXCEPT ![j].status = "completed"]
    /\ runner' = [runner EXCEPT ![j] = "storing"]
    /\ UNCHANGED <<response, pipeVars, crewVars>>

\* line 78: JOBS[job_id]["result"] = result
run_job_result(j) ==
    /\ runner[j] = "storing"
    /\ JOBS' = [JOBS EXCEPT ![j].result = "output"]
    /\ runner' = [runner EXCEPT ![j] = "done"]
    /\ UNCHANGED <<response, pipeVars, crewVars>>

\* line 80: JOBS[job_id]["status"] = "failed"
run_job_failed(j) ==
    /\ runner[j] = "raised"
    /\ JOBS' = [JOBS EXCEPT ![j].status = "failed"]
    /\ runner' = [runner EXCEPT ![j] = "reporting"]
    /\ UNCHANGED <<response, pipeVars, crewVars>>

\* line 81: JOBS[job_id]["error"] = str(e)
run_job_error(j) ==
    /\ runner[j] = "reporting"
    /\ JOBS' = [JOBS EXCEPT ![j].error = "Exception"]
    /\ runner' = [runner EXCEPT ![j] = "done"]
    /\ UNCHANGED <<response, pipeVars, crewVars>>

\* GET /api/status/{job_id}: 404 for an unknown job, otherwise the fields of the job as
\* they are at the time of the request
get_status(job_id) ==
    /\ response' = IF job_id \in 1..Len(JOBS)
                   THEN [code |-> 200, job_id |-> job_id, status |-> JOBS[job_id].status,
                         result |-> JOBS[job_id].result, error |-> JOBS[job_id].error]
                   ELSE [code |-> 404, job_id |-> job_id, status |-> "", result |-> "None",
                         error |-> "None"]
    /\ UNCHANGED <<JOBS, runner, pipeVars, crewVars>>

JobNext ==
    \/ \E topic \in Topics : run_task(topic)
    \/ \E j \in 1..Len(JOBS) : run_job_running(j)
    \/ \E j \in 1..Len(JOBS) : run_job_kickoff(j)
    \/ \E j \in 1..Len(JOBS) : run_job_completed(j)
    \/ \E j \in 1..Len(JOBS) : run_job_result(j)
    \/ \E j \in 1..Len(JOBS) : run_job_failed(j)
    \/ \E j \in 1..Len(JOBS) : run_job_error(j)
    \/ \E job_id \in 1..MaxJobs : get_status(job_id)

JobSpec == ServerInit /\ [][JobNext]_vars

(***************************************************************************)
(* Properties of the normalization engine                                  *)
(***************************************************************************)
ToSet(seq) == {seq[n] : n \in 1..Len(seq)}

NoDup(seq) == \A p, q \in 1..Len(seq) : p # q => seq[p] # seq[q]

FirstIndex(seq, x) == MinOf({n \in 1..Len(seq) : seq[n] = x})

\* after holds every item of before exactly once, in the order of first occurrence
FirstSeenOrder(before, after) ==
    /\ NoDup(after)
    /\ ToSet(after) = ToSet(before)
    /\ \A p, q \in 1..Len(after) :
          p < q => FirstIndex(before, after[p]) < FirstIndex(before, after[q])

NonEmptyItems(seq) == SelectSeq(seq, LAMBDA it : it # <<>>)

\* the call normalizes the single fragment f
Normalizes(f) == result = TaskBundle(<<f>>)

\* the value _extract_all_json_blocks returns to a caller that passes the task outputs only
Returned == entry = "extract" /\ pc = "returned"

\* Returned, or the sections create_multislide_pptx renders
AtResult == Returned \/ pc = "done"

\* the accumulator create_multislide_pptx holds once it has merged the structured dicts
DirectMerged == pc = "fallback"

\* C1: in every state of a normalization call, after any JSON merge, key=value merge,
\* heading flush or URL harvest, and in the value returned, the accumulator has exactly
\* the nine section keys; summary is a string and each of the other eight is a list
C1_NineKeys ==
    /\ DOMAIN merged = SectionKeySet
    /\ merged["summary"].t = "str"
    /\ \A k \in ListKeySet : merged[k].t = "arr"

\* a returned accumulator that a JSON merge, a heading flush and the URL harvest have filled
C1_Witness ==
    /\ pc = "returned"
    /\ merged["trends"].items # <<>>
    /\ merged["risks"].items # <<>>
    /\ merged["sources"].items # <<>>

SameDeck(a, b) ==
    /\ a["summary"] = b["summary"]
    /\ [k \in ListKeySet \ {"recommendations"} |-> FinalDedupe(a)[k]]
          = [k \in ListKeySet \ {"recommendations"} |-> FinalDedupe(b)[k]]
    /\ RecLines(a) = RecLines(b)

HeadingPartials == {Fragment.risks, Fragment.summary, Fragment.kv}

\* two accumulators hold the same set of entries in each list field
SameListSets(a, b) == \A k \in ListKeySet : ToSet(a[k].items) = ToSet(b[k].items)

\* C4: from any accumulator create_multislide_pptx has built, merging two partials in either order gives each of the
\* eight list fields the same set of entries; the same for two heading texts
C4_OrderIndependent ==
    DirectMerged =>
    /\ \A X, Y \in Partials :
          SameListSets(MergeJsonInto(MergeJsonInto(merged, X), Y),
                       MergeJsonInto(MergeJsonInto(merged, Y), X))
    /\ \A f, g \in HeadingPartials :
          SameListSets(ExtractFromMarkdown(ExtractFromMarkdown(merged, f), g),
                       ExtractFromMarkdown(ExtractFromMarkdown(merged, g), f))

\* two partials with overlapping risks merged one after the other
C4_Witness ==
    /\ pc = "fallback"
    /\ result = StructuredBundle(<<Partial.sumA, Partial.sumB>>)
    /\ merged["risks"].items = <<Txt.r1, Txt.r2, Txt.r2, Txt.r3>>

SummaryPartials == {X \in Partials : HasKey(X, K.summary)}

\* C5 as claimed: the summary after merging X then Y equals the summary after Y then X
C5_SummaryCommutes ==
    DirectMerged => \A X, Y \in SummaryPartials :
        MergeJsonInto(MergeJsonInto(merged, X), Y)["summary"]
            = MergeJsonInto(MergeJsonInto(merged, Y), X)["summary"]

\* C5: both orders give a summary of the same length, and the same summary when the two
\* candidates differ in length or are equal; of two different candidates of equal length
\* that are longer than the summary held, the one merged first stays
C5_SummaryCommutesUnlessTie ==
    DirectMerged => \A X, Y \in SummaryPartials :
        LET sx == StripVal(Get(X, K.summary))
            sy == StripVal(Get(Y, K.summary))
            xy == MergeJsonInto(MergeJsonInto(merged, X), Y)["summary"].s
            yx == MergeJsonInto(MergeJsonInto(merged, Y), X)["summary"].s
        IN  /\ Len(xy) = Len(yx)
            /\ (Len(sx) # Len(sy) \/ sx = sy) => xy = yx
            /\ (Len(sx) = Len(sy) /\ sx # sy /\ Len(sx) > Len(merged["summary"].s))
                  => xy = sx /\ yx = sy

\* two partials whose summaries differ and have the same length: the first one stays
C5_Witness ==
    /\ pc = "fallback"
    /\ result = StructuredBundle(<<Partial.sumA, Partial.sumB>>)
    /\ merged["summary"].s = Txt.alpha

\* the summaries one candidate string offers: those of the JSON objects found in it, of
\* its key=value block and of its summary heading sections
SummariesOf(c) ==
    {StripVal(Get(o, K.summary)) :
        o \in {x \in ToSet(FenceObjects(c)) \cup ToSet(BareObjects(c)) :
                  IsDict(x) /\ HasKey(x, K.summary)}}
    \cup {ParseSummaryKvBlock(c).summary : x \in {y \in {1} : ParseSummaryKvBlock(c).ok}}
    \cup {Strip(Join(<<" ">>, FilteredCleaned(seg.buf))) :
            seg \in {x \in ToSet(Segments(c)) : x.current = "summary" /\ x.buf # <<>>}}

SummaryCandidates(cands) == UNION {SummariesOf(cands[n]) : n \in 1..Len(cands)}

\* s is a longest member of C, the empty text when C is empty
IsLongestOf(s, C) ==
    /\ s \in C \cup {<<>>}
    /\ \A c \in C : Len(s) >= Len(c)

\* C6: every step leaves the summary as it is or replaces it with a strictly longer text,
\* and the summary a normalization call returns is the longest of the candidate summaries
C6_SummaryMonotone ==
    [][/\ merged'["summary"] = merged["summary"]
          \/ Len(merged'["summary"].s) > Len(merged["summary"].s)
       /\ pc' = "returned" => IsLongestOf(merged'["summary"].s, SummaryCandidates(candidates'))]_vars

\* a call where the key=value summary was replaced by the longer heading summary
C6_Witness ==
    /\ pc = "returned"
    /\ result = TaskBundle(<<Fragment.kv, Fragment.summary>>)
    /\ merged["summary"].s = Txt.growth

\* C7 as claimed: normalizing the strict JSON fragment gives exactly its trend list and
\* its source list, all other fields empty
C7_StrictRoundTrip ==
    (Returned /\ Normalizes(Fragment.strict)) =>
        merged = [EmptyAccumulator EXCEPT !["trends"] = JArr(<<Txt.a>>),
                                          !["sources"] = JArr(<<Txt.url>>)]

Longer(a, b) == IF Len(a) > Len(b) THEN a ELSE b

\* C8: for prose with two complete JSON objects embedded in it, the summary of the result
\* is the longer of the two embedded summaries, whichever comes first
C8_BraceScan ==
    AtResult =>
        \A s1, s2 \in SummaryTexts :
            (s1 # s2 /\ Normalizes(Embedded(s1, s2))) => merged["summary"].s = Longer(s1, s2)

\* the fragment of the claim, normalized: the second, longer summary is the result
C8_Witness ==
    /\ Returned
    /\ Normalizes(Embedded(Txt.s1, Txt.s2))
    /\ merged["summary"].s = Txt.s2

\* C9: for a heading line that is an alias of risks in either language, with or without
\* '#' and colon, in any of the letter cases tried, followed by three bullet lines, the
\* risks of the result are the three bullet texts without their markers
C9_RisksHeading ==
    AtResult =>
        \A h \in RiskHeadings, ms \in MarkerChoices :
            Normalizes(RiskFragment(h, ms)) => merged["risks"].items = BulletTexts

\* a Norwegian heading with '#' and colon over three differently marked bullets
C9_Witness ==
    /\ Returned
    /\ Normalizes(RiskFragment(<<"#", "R", "i", "s", "i", "k", "o", ":">>,
                               <<<<"-", " ">>, <<"*", " ", " ">>, <<"BULLET", "\t">>>>))
    /\ merged["risks"].items = BulletTexts

\* C10: a section line that is a serialized mapping literal, bulleted or not, is dropped
\* on flush: the section holds the other two lines and no other list holds anything
C10_DictLineDropped ==
    AtResult =>
        \A sh \in SectionHeadings, lit \in MappingLines, pos \in 1..3 :
            Normalizes(DictLineFragment(sh.h, lit, pos)) =>
                /\ merged[sh.key].items =
                      IF sh.key = "competitors"
                      THEN <<CompetitorRow(Txt.x, <<>>, <<>>), CompetitorRow(Txt.y, <<>>, <<>>)>>
                      ELSE <<Txt.x, Txt.y>>
                /\ \A k \in ListKeySet \ {sh.key} : merged[k].items = <<>>

\* the mapping literal of the claim as the middle bullet of a risks section
C10_Witness ==
    /\ Returned
    /\ Normalizes(DictLineFragment(<<"R", "i", "s", "k", "s">>, <<"-", " ">> \o Txt.pylit, 2))
    /\ merged["risks"].items = <<Txt.x, Txt.y>>

\* the call ended with an exception (or in the error dict create_multislide_pptx
\* returns in its place)
Crashed == pc \in {"raised", "failed"}

\* C11: for any input bundle - unbalanced braces, an unclosed fence, an empty bundle,
\* leaves that are not strings, a task-output container that is not a list - the
\* normalization does not raise and returns a schema of exactly the nine keys, all
\* empty when no stage contributed anything
C11_NoCrash ==
    /\ ~Crashed
    /\ AtResult => DOMAIN merged = SectionKeySet
    /\ AtResult /\ result \in MalformedBundles => merged = EmptyAccumulator

\* C12: a fragment on which every strategy fails leaves the accumulator unchanged, and
\* the fragments around it contribute what they contribute without it: the value returned
\* for a bundle with a failing fragment at any place is the value returned for the bundle
\* without that fragment
C12_FailSoft ==
    Returned =>
        \A f \in FailingFragments :
            \A n \in 1..Len(candidates) :
                candidates[n] = f =>
                    merged = RunPasses("fence", EmptyAccumulator,
                                       SubSeq(candidates, 1, n - 1)
                                         \o SubSeq(candidates, n + 1, Len(candidates)), 1)

\* unbalanced braces after a fragment that ends near a URL: the sources are those of the
\* first fragment alone
C12_Witness ==
    /\ Returned
    /\ candidates = <<Fragment.strict, <<"}"," ","}"," ","{"," ","\"","s","u","m","m","a","r","y","\"",":"," ","\"","x","\"">> >>
    /\ merged["trends"].items = <<Txt.a>>
    /\ Len(merged["sources"].items) = 2

\* the pair recommendations are said to be deduplicated by
ActionRationale(r) == <<r.action, r.rationale>>

\* C13: recommendations are deduplicated by (action, rationale), ignoring priority: the
\* deck shows one line per pair, rendered from the row of that pair that was seen first
C13_DedupByActionRationale ==
    pc = "done" =>
        rec_lines = SeqMap(RecLine, DedupeFrom(merged["recommendations"].items, ActionRationale, <<>>))

\* C15: a fragment that starts with '{' and ends with '}' but is two complete objects
\* with text between them is still brace-scanned: both objects are recovered and merged,
\* so the summary of the result is the longer of the two summaries
C15_WholeParseFallsThrough ==
    Returned =>
        \A s1, s2 \in SummaryTexts :
            (s1 # s2 /\ Normalizes(Concatenated(s1, s2))) => merged["summary"].s = Longer(s1, s2)

\* C16: a fragment that holds a JSON object inside a triple-backtick fence, with or
\* without the json annotation and with or without prose around the fence, gives the
\* same field contents as the bare object alone: the same summary and, in each list
\* field, the same entries
C16_FenceUnwrap ==
    Returned =>
        \A body \in FenceBodies :
            result \in {TaskBundle(<<f>>) : f \in FencedWith(body)}
            => /\ merged["summary"] = RunPasses("fence", EmptyAccumulator, <<body>>, 1)["summary"]
               /\ SameListSets(merged, RunPasses("fence", EmptyAccumulator, <<body>>, 1))

\* C17: a recovered top-level array is normalized: an array of strings adds each string
\* to insights; an array of objects gives a competitor row for {name, position}, a number
\* row for {metric, value}, a recommendation row for {priority, action} and a flattened
\* string in insights for anything else
C17_TopLevelArray ==
    Returned =>
        /\ Normalizes(ArrayFragment.strings) =>
              merged["insights"].items = <<<<"a","l","p","h","a">>, <<"b","r","a","v","o">> >>
        /\ Normalizes(ArrayFragment.objects) =>
              /\ Len(merged["competitors"].items) = 1
              /\ Len(merged["numbers"].items) = 1
              /\ Len(merged["recommendations"].items) = 1
              /\ Len(merged["insights"].items) = 1

\* C18: key synonyms are resolved at whatever level the object sits: an object that uses
\* executive_summary or summary_long, actors, metrics, or highlights, at the top level or
\* in a research block, gives the accumulator what the object with the canonical key gives
C18_KeySynonyms ==
    DirectMerged =>
        \A n \in DOMAIN Synonym :
            result = StructuredBundle(<<Synonym[n].obj>>) =>
                merged = MergeJsonInto(EmptyAccumulator, Synonym[n].canonical)

\* C19: the fields of an object placed inside a research block, or inside a research
\* block nested in another research block, contribute to the accumulator exactly what
\* they contribute when the object is at the top level
C19_NestedAsTopLevel ==
    DirectMerged =>
        \A p \in Partials :
            result \in {StructuredBundle(<<InResearch(p)>>), StructuredBundle(<<InResearch(InResearch(p))>>)}
            => merged = MergeJsonInto(EmptyAccumulator, p)

\* C20: of the recommendations of a parsed object, a bare string is stored as a row with
\* that string as action, empty rationale and null priority, and an object is stored
\* with its priority coerced to an integer where possible ("2" becomes 2); so every
\* stored recommendation row has a priority that is an integer or null
C20_RecommendationRows ==
    /\ \A n \in 1..Len(merged["recommendations"].items) :
          merged["recommendations"].items[n].priority.t \in {"num", "null"}
    /\ (DirectMerged /\ result = StructuredBundle(<<Probe.recsMixed>>)) =>
          merged["recommendations"].items =
              <<RecommendationRow(JNull, <<"d","o"," ","i","t">>, <<>>),
                RecommendationRow(JNum(<<"2">>), Txt.act, Txt.because)>>

\* C14: build_llm_and_crew_once builds one time: over any interleaving of the warm-up
\* thread and the request handlers, and over repeated calls after a failed build, the
\* loaders are run to build the crew at most once; a failure is recorded in CREW_STATE
\* with ready = False
C14_BuildsOnce ==
    /\ loads <= 1
    /\ CREW_STATE.error # "None" => ~CREW_STATE.ready

\* the five fields that hold plain strings
SimpleListKeySet == {"trends", "insights", "opportunities", "risks", "sources"}

\* C21: in every state, whatever path added it (JSON object, research block, key=value
\* block, heading flush, URL harvest), no entry of a simple-list field is empty or
\* whitespace-only and every entry is trimmed, a whitespace-only trends element included
C21_NoBlankEntries ==
    \A k \in SimpleListKeySet :
        \A n \in 1..Len(merged[k].items) :
            /\ merged[k].items[n] # <<>>
            /\ Strip(merged[k].items[n]) = merged[k].items[n]

\* the candidates have been collected
Collected == pc \notin {"start", "raised", "failed"}

\* C22: in the list of candidates built for one call every candidate is trimmed and
\* non-empty and no two candidates are equal, even when the same text occurs under
\* several keys of a task block, in several task blocks, or both directly and nested
C22_CandidatesDistinct ==
    Collected =>
        /\ NoDup(candidates)
        /\ \A n \in 1..Len(candidates) :
              candidates[n] # <<>> /\ Strip(candidates[n]) = candidates[n]

RECURSIVE TotalLen(_)
\* the aggregate length of a list of fragments
TotalLen(frags) == IF frags = <<>> THEN 0 ELSE Len(Head(frags)) + TotalLen(Tail(frags))

\* C23: candidate collection stops once the aggregate length of the fragments collected
\* in one call exceeds the size budget: no fragment is collected after the one whose
\* addition took the running total over the budget
C23_BudgetStopsCollection ==
    Collected =>
        \A n \in 1..(Len(candidates) - 1) : TotalLen(SubSeq(candidates, 1, n)) <= DeepLimit

RECURSIVE Attributed(_, _, _)
\* the items of an arrangement of lines that follow a heading of section k with no other
\* heading in between, in order; current is the section of the most recent heading
Attributed(plan, current, k) ==
    IF plan = <<>> THEN <<>>
    ELSE IF Head(plan).heading # "" THEN Attributed(Tail(plan), Head(plan).heading, k)
    ELSE (IF Head(plan).item # <<>> /\ current = k THEN <<Head(plan).item>> ELSE <<>>)
         \o Attributed(Tail(plan), current, k)

\* the fields of the accumulator hold exactly the attributed lines of the arrangement
HoldsPlan(plan) ==
    /\ \A k \in SimpleListKeySet : merged[k].items = Attributed(plan, "", k)
    /\ merged["summary"].s = <<>>
    /\ \A k \in ListKeySet \ SimpleListKeySet : merged[k].items = <<>>

\* C24: scanning the lines of a fragment in order, each non-blank line that is not a
\* recognised heading goes to the section of the most recent preceding recognised heading
\* and to no other; lines before the first heading contribute nothing; a heading flushes
\* the buffered lines to the previous section and empties the buffer, and the last
\* section is flushed at the end of the fragment
C24_Segmenter ==
    (Returned /\ Len(candidates) = 1) =>
        \A plan \in SegmentPlans : candidates[1] = PlanText(plan) => HoldsPlan(plan)

\* a line before the first heading, a section that a second heading closes, and a last
\* section flushed at the end
C24_Witness ==
    /\ Returned
    /\ Normalizes(PlanText(<<SegLine.plain, SegLine.risks, SegLine.bullet>>))
    /\ merged["risks"].items = <<Txt.x>>

\* the separator characters the line rule of the row sections names
RowSeparators == {"EMDASH", "-", ":", ";"}

\* the positions of s that hold a separator with whitespace on both sides
SpacedSeparators(s) ==
    {j \in 2..(Len(s) - 1) : s[j] \in RowSeparators /\ s[j-1] \in WS /\ s[j+1] \in WS}

\* s cut at the first two separators that are surrounded by whitespace: three trimmed
\* fields, the missing ones empty
SpacedSplit3(s) ==
    LET J  == SpacedSeparators(s)
        j1 == MinOf(J)
        J2 == {j \in J : j > j1}
        j2 == MinOf(J2)
    IN  IF J = {} THEN <<Strip(s), <<>>, <<>>>>
        ELSE IF J2 = {} THEN <<Strip(SubSeq(s, 1, j1 - 1)), Strip(SubSeq(s, j1 + 1, Len(s))), <<>>>>
        ELSE <<Strip(SubSeq(s, 1, j1 - 1)), Strip(SubSeq(s, j1 + 1, j2 - 1)),
               Strip(SubSeq(s, j2 + 1, Len(s)))>>

\* C25: in the heading segmenter each line of a competitors or numbers section becomes
\* one row of exactly three fields, split at the first two separators (em-dash, hyphen,
\* colon, semicolon) that are surrounded by whitespace; a separator character with no
\* whitespace around it does not split the line, and missing trailing fields are empty
C25_RowsSplitAtSpacedSeparators ==
    Returned =>
        \A n \in DOMAIN RowLine :
            /\ Normalizes(RowFragment("competitors", n)) =>
                   merged["competitors"].items = <<RowOfParts(CompetitorRow, SpacedSplit3(RowLine[n]))>>
            /\ Normalizes(RowFragment("numbers", n)) =>
                   merged["numbers"].items = <<RowOfParts(NumberRow, SpacedSplit3(RowLine[n]))>>

\* the row a recommendation line of the given kind stands for when it is line pos of its
\* flush: the announced number, or else the position
RowOfKind(kind, pos) ==
    RecommendationRow(JNum(IntToDigits(IF kind.prio >= 0 THEN kind.prio ELSE pos)),
                      kind.action, kind.rationale)

\* C26: in the heading segmenter a flushed recommendations line of the form
\* "[priority N] action - rationale" (any letter case, brackets optional) is stored with
\* priority exactly N, for every N including 0, with its action and its rationale; any
\* other line is split at the first em-dash or hyphen into action and rationale and gets
\* its 1-based position among the lines of that flush, not of the whole result
C26_PriorityRule ==
    Returned =>
        /\ \A plan \in RecPlans :
              Normalizes(RecPlanText(plan)) =>
                  merged["recommendations"].items = [n \in 1..Len(plan) |-> RowOfKind(plan[n], n)]
        /\ Normalizes(TwoFlushFragment) =>
              merged["recommendations"].items =
                  <<RecommendationRow(JNum(<<"1">>), Txt.x, <<>>),
                    RecommendationRow(JNum(<<"1">>), <<"o","t","h","e","r">>, <<"w","h","y">>)>>

Letters == {UpperCase[n] : n \in 1..Len(UpperCase)} \cup {LowerCase[n] : n \in 1..Len(LowerCase)}

\* the positions of s where "://" stands between a scheme letter and a character that is
\* neither whitespace nor ")"
UrlMarks(s) ==
    {p \in 2..(Len(s) - 3) :
        /\ MatchAt(s, p, <<":", "/", "/">>)
        /\ s[p-1] \in Letters
        /\ s[p+3] \notin WS \cup {")"}}

\* the absolute URL around the mark p: the maximal run of letters before it, "://", and
\* the maximal run of characters that are neither whitespace nor ")" after it
UrlAround(s, p) ==
    SubSeq(s, MinOf({j \in 1..(p - 1) : \A k \in j..(p - 1) : s[k] \in Letters}),
              MinOf({j \in (p + 3)..(Len(s) + 1) : j = Len(s) + 1 \/ s[j] \in WS \cup {")"}}) - 1)

\* the absolute URLs that occur in s
AbsoluteUrls(s) == {UrlAround(s, p) : p \in UrlMarks(s)}

\* C27: every absolute URL that occurs in a candidate (a scheme, "://", a maximal run of
\* characters that are neither whitespace nor ")") is an entry of sources in the result;
\* each entry with a URL in it lies entirely within one candidate; and no URL is an entry
\* of sources twice
C27_UrlHarvest ==
    Returned =>
        /\ \A n \in 1..Len(candidates) :
              \A u \in AbsoluteUrls(candidates[n]) : u \in ToSet(merged["sources"].items)
        /\ \A m \in 1..Len(merged["sources"].items) :
              AbsoluteUrls(merged["sources"].items[m]) # {} =>
                  \E n \in 1..Len(candidates) : Contains(candidates[n], merged["sources"].items[m])
        /\ NoDup(merged["sources"].items)

\* title and reason joined by a spaced em-dash when both are there
TitleAndWhy(title, why) ==
    IF title # <<>> /\ why # <<>> THEN title \o <<" ", "EMDASH", " ">> \o why ELSE title \o why

\* the evidence in parentheses, empty without evidence
EvidenceNote(ev) ==
    IF ev = <<>> THEN <<>> ELSE <<"(","e","v","i","d","e","n","c","e",":"," ">> \o ev \o <<")">>

\* the line "title - why_it_matters (evidence: evidence)" with every empty component left
\* out together with its separator
LineOfParts(p) ==
    IF TitleAndWhy(p[1], p[2]) # <<>> /\ p[3] # <<>>
    THEN TitleAndWhy(p[1], p[2]) \o <<" ">> \o EvidenceNote(p[3])
    ELSE TitleAndWhy(p[1], p[2]) \o EvidenceNote(p[3])

\* C28: a trends element that is an object with title, evidence and why_it_matters (or
\* why) is stored as one line "title - why_it_matters (evidence: evidence)" in which
\* every empty component is left out together with its separator, so the line never
\* starts or ends with a separator or a space, and an object whose components are all
\* empty adds nothing; a bare string element is stored as is
C28_TrendObjectLine ==
    Returned =>
        /\ \A k \in WhyKeys, p \in TrendParts :
              Normalizes(TrendObjectText(k, p)) =>
                  merged["trends"].items = IF LineOfParts(p) = <<>> THEN <<>> ELSE <<LineOfParts(p)>>
        /\ Normalizes(Fragment.strict) => merged["trends"].items = <<Txt.a>>

\* the value of depth in _brace_scan_json after the first n characters of text: one up
\* for every "{", one down for every "}"
DepthAfter(text, n) ==
    Cardinality({j \in 1..n : text[j] = "{"}) - Cardinality({j \in 1..n : text[j] = "}"})

\* C30: in the brace-depth scan the nesting depth never goes below zero, so a closing
\* brace that appears before any opening brace in a fragment does not stop a later
\* complete JSON object of the same fragment from being sliced out and parsed
C30_StrayClosingBrace ==
    (Returned /\ Normalizes(StrayBraceFragment)) =>
        /\ \A n \in 1..Len(StrayBraceFragment) : DepthAfter(StrayBraceFragment, n) >= 0
        /\ merged["summary"].s = Txt.hello

\* what a status request reads is complete: a completed job with its result, a failed job
\* with its error
ReadsComplete ==
    /\ response.status = "completed" => response.result # "None"
    /\ response.status = "failed" => response.error # "None"

\* a step changes the status of a job only along queued, running, completed or failed
StatusMoves ==
    \A j \in 1..Len(JOBS) :
        JOBS'[j].status # JOBS[j].status =>
            <<JOBS[j].status, JOBS'[j].status>>
                \in {<<"queued", "running">>, <<"running", "completed">>, <<"running", "failed">>}

\* C29: in the job store of the web API, under any interleaving of the background job
\* runner with status requests, a job whose status reads "completed" always has its
\* result set, a job whose status reads "failed" always has its error set, and the status
\* of a job only moves queued, running, then completed or failed, and never changes after
\* completed or failed
C29_JobStore == []ReadsComplete /\ [][StatusMoves]_vars

====
